---------------------------- MODULE Spec2Model ----------------------------
(***************************************************************************)
(* A model of git-sync (kinnison/git-sync): the pkt-line framer            *)
(* (src/src/protocol.rs), the advertisement readers (protocol.rs,          *)
(* fetch.rs, send.rs) and the fetch negotiator (fetch.rs).                 *)
(*                                                                         *)
(* Byte strings are sequences of byte values (naturals 0..255); a text     *)
(* literal of the source is written as the sequence of its ASCII codes.    *)
(***************************************************************************)
EXTENDS Integers, Sequences, FiniteSets, TLC

(***************************************************************************)
(* Bounds of the model.                                                    *)
(***************************************************************************)
\* longest enumerated (small) Data payload
MaxSmall == 2
\* most packets written to one framer stream
MaxFramePkts == 2
\* most filler bytes a peer writes after a raw four-byte header
MaxRaw == 3
\* most packets a peer sends in its advertisement stream
MaxAdvPkts == 3
\* most identifiers in the want and in the have iterator of request_pack
MaxWants == 2
MaxHaves == 2
\* most entries of a ref map handed to send_refchange
MaxRefs == 2

(***************************************************************************)
(* Bytes and literals.                                                     *)
(***************************************************************************)
NUL == 0
LF == 10
SP == 32
EQ == 61
Ch0 == 48
ChA == 97

\* n copies of the byte c
Rep(c, n) == [i \in 1..n |-> c]

\* b"0000", b"0001", b"0002", b"0003"
HdrFlush == <<48, 48, 48, 48>>
HdrDelimiter == <<48, 48, 48, 49>>
HdrResponseEnd == <<48, 48, 48, 50>>
HdrReserved == <<48, 48, 48, 51>>

\* pub const NULLSHA: forty ASCII zeros
NULLSHA == Rep(Ch0, 40)

(***************************************************************************)
(* ProtocolLine                                                            *)
(***************************************************************************)
Flush == [kind |-> "Flush"]
Delimiter == [kind |-> "Delimiter"]
ResponseEnd == [kind |-> "ResponseEnd"]
Data(b) == [kind |-> "Data", data |-> b]

\* one lowercase hexadecimal digit, as {:x} prints it
HexChar(d) == IF d < 10 THEN Ch0 + d ELSE ChA + (d - 10)

\* the hexadecimal digits of v, most significant first, no padding
RECURSIVE HexStr(_)
HexStr(v) == IF v < 16 THEN <<HexChar(v)>>
             ELSE HexStr(v \div 16) \o <<HexChar(v % 16)>>

\* format!("{:04x}", v): at least four digits, zero padded, never truncated
Format04x(v) ==
    LET h == HexStr(v)
    IN  IF Len(h) >= 4 THEN h ELSE Rep(Ch0, 4 - Len(h)) \o h

\* ProtocolLine::write_str: the bytes written for the string s
WriteStr(s) == Format04x(Len(s) + 4) \o s

\* ProtocolLine::write_to: the bytes written for the packet p
WriteTo(p) ==
    CASE p.kind = "Flush" -> HdrFlush
      [] p.kind = "Delimiter" -> HdrDelimiter
      [] p.kind = "ResponseEnd" -> HdrResponseEnd
      [] p.kind = "Data" -> Format04x(Len(p.data) + 4) \o p.data

\* results of a read
OkRes(l, r) == [status |-> "Ok", line |-> l, rest |-> r]
ErrRes(k, r) == [status |-> "Err", err |-> k, rest |-> r]
PanicRes(m) == [status |-> "Panic", msg |-> m]

\* the two build profiles: overflow checks on (debug) or off (release)
Builds == {"debug", "release"}

\* the closure of read_from that turns a header byte into its digit value
HexVal(v) ==
    IF v >= 48 /\ v <= 57 THEN v - 48
    ELSE IF v >= 97 /\ v <= 102 THEN v - 97 + 10
    ELSE 0

\* a header read as the length of the payload alone
HeaderValue_Inclusive(lenbuf) ==
    HexVal(lenbuf[1]) * 4096 + HexVal(lenbuf[2]) * 256
        + HexVal(lenbuf[3]) * 16 + HexVal(lenbuf[4]) + 4

\* the sum of the shifted digits, before the header's 4 is subtracted
HeaderValue(lenbuf) ==
    HexVal(lenbuf[1]) * 4096 + HexVal(lenbuf[2]) * 256
        + HexVal(lenbuf[3]) * 16 + HexVal(lenbuf[4])

\* a read_from that chomps whether or not it was asked to
Chomp_Always(chomp_newline, data) ==
    IF data # <<>> /\ data[Len(data)] = LF
    THEN SubSeq(data, 1, Len(data) - 1)
    ELSE data

\* the chomp_newline step of read_from
Chomp(chomp_newline, data) ==
    IF chomp_newline /\ data # <<>> /\ data[Len(data)] = LF
    THEN SubSeq(data, 1, Len(data) - 1)
    ELSE data

\* ProtocolLine::read_from on a reader that holds exactly the bytes of
\* stream and then reports end of file.  The usize subtraction of a header
\* value below 4 overflows: the debug build panics there, the release build
\* wraps to 2^64 - 4 + value, which Vec::with_capacity refuses by panicking.
ReadFrom(stream, chomp_newline, bld) ==
    IF Len(stream) < 4 THEN ErrRes("UnexpectedEof", <<>>)
    ELSE
      LET lenbuf == SubSeq(stream, 1, 4)
          rest == SubSeq(stream, 5, Len(stream))
      IN  CASE lenbuf = HdrFlush -> OkRes(Flush, rest)
            [] lenbuf = HdrDelimiter -> OkRes(Delimiter, rest)
            [] lenbuf = HdrResponseEnd -> OkRes(ResponseEnd, rest)
            [] lenbuf = HdrReserved -> ErrRes("Other", rest)
            [] OTHER ->
                 IF HeaderValue(lenbuf) < 4
                 THEN IF bld = "debug"
                      THEN PanicRes("attempt to subtract with overflow")
                      ELSE PanicRes("capacity overflow")
                 ELSE
                   LET pktlen == HeaderValue(lenbuf) - 4
                       got == IF Len(rest) < pktlen THEN Len(rest) ELSE pktlen
                       data == SubSeq(rest, 1, got)
                   IN  IF pktlen # got
                       THEN ErrRes("BrokenPipe", <<>>)
                       ELSE OkRes(Data(Chomp(chomp_newline, data)),
                                  SubSeq(rest, got + 1, Len(rest)))

(***************************************************************************)
(* Capability                                                              *)
(***************************************************************************)
\* enum Capability
Capability ==
    {"MultiAck", "MultiAckDetailed", "NoDone", "ThinPack",
     "SideBand", "SideBand64K", "OfsDelta", "Agent",
     "ObjectFormat", "SymRef", "Shallow", "DeepenSince",
     "DeepenNot", "DeepenRelative", "NoProgress", "IncludeTag",
     "ReportStatus", "ReportStatusV2", "DeleteRefs", "Quiet",
     "Atomic", "PushOptions", "AllowTipSha1InWant", "AllowReachableSha1InWant",
     "PushCert", "Filter"}

\* Capability::as_str
as_str(c) ==
    CASE c = "MultiAck" ->
          <<109, 117, 108, 116, 105, 95, 97, 99, 107>>  \* multi_ack
      [] c = "MultiAckDetailed" ->
          <<109, 117, 108, 116, 105, 95, 97, 99, 107, 95, 100, 101, 116, 97, 105, 108, 101, 100>>  \* multi_ack_detailed
      [] c = "NoDone" ->
          <<110, 111, 45, 100, 111, 110, 101>>  \* no-done
      [] c = "ThinPack" ->
          <<116, 104, 105, 110, 45, 112, 97, 99, 107>>  \* thin-pack
      [] c = "SideBand" ->
          <<115, 105, 100, 101, 45, 98, 97, 110, 100>>  \* side-band
      [] c = "SideBand64K" ->
          <<115, 105, 100, 101, 45, 98, 97, 110, 100, 45, 54, 52, 107>>  \* side-band-64k
      [] c = "OfsDelta" ->
          <<111, 102, 115, 45, 100, 101, 108, 116, 97>>  \* ofs-delta
      [] c = "Agent" ->
          <<97, 103, 101, 110, 116>>  \* agent
      [] c = "ObjectFormat" ->
          <<111, 98, 106, 101, 99, 116, 45, 102, 111, 114, 109, 97, 116>>  \* object-format
      [] c = "SymRef" ->
          <<115, 121, 109, 114, 101, 102>>  \* symref
      [] c = "Shallow" ->
          <<115, 104, 97, 108, 108, 111, 119>>  \* shallow
      [] c = "DeepenSince" ->
          <<100, 101, 101, 112, 101, 110, 45, 115, 105, 110, 99, 101>>  \* deepen-since
      [] c = "DeepenNot" ->
          <<100, 101, 101, 112, 101, 110, 45, 110, 111, 116>>  \* deepen-not
      [] c = "DeepenRelative" ->
          <<100, 101, 101, 112, 101, 110, 45, 114, 101, 108, 97, 116, 105, 118, 101>>  \* deepen-relative
      [] c = "NoProgress" ->
          <<110, 111, 45, 112, 114, 111, 103, 114, 101, 115, 115>>  \* no-progress
      [] c = "IncludeTag" ->
          <<105, 110, 99, 108, 117, 100, 101, 45, 116, 97, 103>>  \* include-tag
      [] c = "ReportStatus" ->
          <<114, 101, 112, 111, 114, 116, 45, 115, 116, 97, 116, 117, 115>>  \* report-status
      [] c = "ReportStatusV2" ->
          <<114, 101, 112, 111, 114, 116, 45, 115, 116, 97, 116, 117, 115, 45, 118, 50>>  \* report-status-v2
      [] c = "DeleteRefs" ->
          <<100, 101, 108, 101, 116, 101, 45, 114, 101, 102, 115>>  \* delete-refs
      [] c = "Quiet" ->
          <<113, 117, 105, 101, 116>>  \* quiet
      [] c = "Atomic" ->
          <<97, 116, 111, 109, 105, 99>>  \* atomic
      [] c = "PushOptions" ->
          <<112, 117, 115, 104, 45, 111, 112, 116, 105, 111, 110, 115>>  \* push-options
      [] c = "AllowTipSha1InWant" ->
          <<97, 108, 108, 111, 119, 45, 116, 105, 112, 45, 115, 104, 97, 49, 45, 105, 110, 45, 119, 97, 110, 116>>  \* allow-tip-sha1-in-want
      [] c = "AllowReachableSha1InWant" ->
          <<97, 108, 108, 111, 119, 45, 114, 101, 97, 99, 104, 97, 98, 108, 101, 45, 115, 104, 97, 49, 45, 105, 110, 45, 119, 97, 110, 116>>  \* allow-reachable-sha1-in-want
      [] c = "PushCert" ->
          <<112, 117, 115, 104, 45, 99, 101, 114, 116>>  \* push-cert
      [] c = "Filter" ->
          <<102, 105, 108, 116, 101, 114>>  \* filter

\* the Err(value) of try_from
TryErr(value) == [ok |-> FALSE, err |-> value]
TryOk(c) == [ok |-> TRUE, cap |-> c]

\* a try_from that takes a token with anything behind it for the token
try_from_Prefix(value) ==
    IF Len(value) >= 5 /\ SubSeq(value, 1, 5) = <<97, 103, 101, 110, 116>>
    THEN TryOk("Agent")
    ELSE TryErr(value)

\* impl TryFrom<&str> for Capability
try_from(value) ==
    CASE value = <<109, 117, 108, 116, 105, 95, 97, 99, 107>> ->
          TryOk("MultiAck")  \* multi_ack
      [] value = <<109, 117, 108, 116, 105, 95, 97, 99, 107, 95, 100, 101, 116, 97, 105, 108, 101, 100>> ->
          TryOk("MultiAckDetailed")  \* multi_ack_detailed
      [] value = <<110, 111, 45, 100, 111, 110, 101>> ->
          TryOk("NoDone")  \* no-done
      [] value = <<116, 104, 105, 110, 45, 112, 97, 99, 107>> ->
          TryOk("ThinPack")  \* thin-pack
      [] value = <<115, 105, 100, 101, 45, 98, 97, 110, 100>> ->
          TryOk("SideBand")  \* side-band
      [] value = <<115, 105, 100, 101, 45, 98, 97, 110, 100, 45, 54, 52, 107>> ->
          TryOk("SideBand64K")  \* side-band-64k
      [] value = <<111, 102, 115, 45, 100, 101, 108, 116, 97>> ->
          TryOk("OfsDelta")  \* ofs-delta
      [] value = <<97, 103, 101, 110, 116>> ->
          TryOk("Agent")  \* agent
      [] value = <<111, 98, 106, 101, 99, 116, 45, 102, 111, 114, 109, 97, 116>> ->
          TryOk("ObjectFormat")  \* object-format
      [] value = <<115, 121, 109, 114, 101, 102>> ->
          TryOk("SymRef")  \* symref
      [] value = <<115, 104, 97, 108, 108, 111, 119>> ->
          TryOk("Shallow")  \* shallow
      [] value = <<100, 101, 101, 112, 101, 110, 45, 115, 105, 110, 99, 101>> ->
          TryOk("DeepenSince")  \* deepen-since
      [] value = <<100, 101, 101, 112, 101, 110, 45, 110, 111, 116>> ->
          TryOk("DeepenNot")  \* deepen-not
      [] value = <<100, 101, 101, 112, 101, 110, 45, 114, 101, 108, 97, 116, 105, 118, 101>> ->
          TryOk("DeepenRelative")  \* deepen-relative
      [] value = <<110, 111, 45, 112, 114, 111, 103, 114, 101, 115, 115>> ->
          TryOk("NoProgress")  \* no-progress
      [] value = <<105, 110, 99, 108, 117, 100, 101, 45, 116, 97, 103>> ->
          TryOk("IncludeTag")  \* include-tag
      [] value = <<114, 101, 112, 111, 114, 116, 45, 115, 116, 97, 116, 117, 115>> ->
          TryOk("ReportStatus")  \* report-status
      [] value = <<114, 101, 112, 111, 114, 116, 45, 115, 116, 97, 116, 117, 115, 45, 118, 50>> ->
          TryOk("ReportStatusV2")  \* report-status-v2
      [] value = <<100, 101, 108, 101, 116, 101, 45, 114, 101, 102, 115>> ->
          TryOk("DeleteRefs")  \* delete-refs
      [] value = <<113, 117, 105, 101, 116>> ->
          TryOk("Quiet")  \* quiet
      [] value = <<97, 116, 111, 109, 105, 99>> ->
          TryOk("Atomic")  \* atomic
      [] value = <<112, 117, 115, 104, 45, 111, 112, 116, 105, 111, 110, 115>> ->
          TryOk("PushOptions")  \* push-options
      [] value = <<97, 108, 108, 111, 119, 45, 116, 105, 112, 45, 115, 104, 97, 49, 45, 105, 110, 45, 119, 97, 110, 116>> ->
          TryOk("AllowTipSha1InWant")  \* allow-tip-sha1-in-want
      [] value = <<97, 108, 108, 111, 119, 45, 114, 101, 97, 99, 104, 97, 98, 108, 101, 45, 115, 104, 97, 49, 45, 105, 110, 45, 119, 97, 110, 116>> ->
          TryOk("AllowReachableSha1InWant")  \* allow-reachable-sha1-in-want
      [] value = <<112, 117, 115, 104, 45, 99, 101, 114, 116>> ->
          TryOk("PushCert")  \* push-cert
      [] value = <<102, 105, 108, 116, 101, 114>> ->
          TryOk("Filter")  \* filter
      [] OTHER -> TryErr(value)

(***************************************************************************)
(* Advertisement parsing: the body of the loop that                        *)
(* RefAdvertisement::read_from, GitFetch::read_advertisement and           *)
(* GitSend::read_advertisement share.                                      *)
(***************************************************************************)
\* Option<T>: None is the empty sequence, Some(v) the one-element sequence
None == <<>>
Some(v) == <<v>>

\* a map (HashMap) as a function; insert adds or overwrites one key
EmptyMap == <<>>
MapInsert(m, k, v) == [x \in (DOMAIN m) \cup {k} |-> IF x = k THEN v ELSE m[x]]

\* str::find / position of the first element equal to c; 0 when absent
IndexOf(s, c) ==
    IF \E i \in 1..Len(s) : s[i] = c
    THEN CHOOSE i \in 1..Len(s) : s[i] = c /\ \A j \in 1..(i - 1) : s[j] # c
    ELSE 0

\* slice::split / str::split on one separator: all segments, in order
RECURSIVE SplitOn(_, _)
SplitOn(s, c) ==
    LET i == IndexOf(s, c)
    IN  IF i = 0 THEN <<s>>
        ELSE <<SubSeq(s, 1, i - 1)>> \o SplitOn(SubSeq(s, i + 1, Len(s)), c)

\* String::from_utf8_lossy: ASCII bytes are kept, every other byte becomes
\* U+FFFD (multi-byte sequences are not modelled: the peers send ASCII)
FromUtf8Lossy(bytes) ==
    [i \in 1..Len(bytes) |-> IF bytes[i] < 128 THEN bytes[i] ELSE 65533]

\* b"capabilities^{}" and the suffix "^{}"
CapabilitiesName ==
    <<99, 97, 112, 97, 98, 105, 108, 105, 116, 105, 101, 115, 94, 123, 125>>
PeeledSuffix == <<94, 123, 125>>

\* str::ends_with
EndsWith(s, suffix) ==
    /\ Len(s) >= Len(suffix)
    /\ SubSeq(s, Len(s) - Len(suffix) + 1, Len(s)) = suffix

\* the split of one capability at its first '='
SplitCap(cap) ==
    LET idx == IndexOf(cap, EQ)
    IN  IF idx # 0
        THEN [capname |-> SubSeq(cap, 1, idx - 1),
              capvalue |-> Some(SubSeq(cap, idx + 1, Len(cap)))]
        ELSE [capname |-> cap, capvalue |-> None]

\* a map insert that keeps the entry a key already has
CapInsert_KeepFirst(caps, cap) ==
    LET c == SplitCap(cap)
        t == try_from(c.capname)
    IN  IF t.ok /\ t.cap \notin DOMAIN caps
        THEN MapInsert(caps, t.cap, c.capvalue)
        ELSE caps

\* one pass of `for cap in caps.split(' ')`: a recognised capability is
\* inserted (overwriting), any other is skipped
CapInsert(caps, cap) ==
    LET c == SplitCap(cap)
        t == try_from(c.capname)
    IN  IF t.ok THEN MapInsert(caps, t.cap, c.capvalue) ELSE caps

\* the whole `for cap in caps.split(' ')` loop over the segments toks
RECURSIVE InsertCaps(_, _)
InsertCaps(caps, toks) ==
    IF toks = <<>> THEN caps
    ELSE InsertCaps(CapInsert(caps, Head(toks)), Tail(toks))

\* the three advertisement readers
Readers == {"RefAdvertisement", "GitFetch", "GitSend"}

\* a reader that drops every peeled name
KeepRef_DropPeeled(reader, refname) == ~EndsWith(refname, PeeledSuffix)

\* whether the reader inserts refname: only GitSend::read_advertisement
\* skips the name capabilities^{}
KeepRef(reader, refname) ==
    ~(reader = "GitSend" /\ refname = CapabilitiesName)

\* the capability part of the ProtocolLine::Data arm: the second NUL
\* segment, when there is one, is split at spaces and inserted
AdvCaps(caps, cow) ==
    LET bits == SplitOn(cow, NUL)
    IN  IF Len(bits) >= 2
        THEN InsertCaps(caps, SplitOn(FromUtf8Lossy(bits[2]), SP))
        ELSE caps

\* the ref part of the ProtocolLine::Data arm
AdvRefs(reader, refs, cow) ==
    LET refpart == FromUtf8Lossy(SplitOn(cow, NUL)[1])
        pos == IndexOf(refpart, SP)
    IN  IF pos # 0
        THEN LET sha == SubSeq(refpart, 1, pos - 1)
                 refname == SubSeq(refpart, pos + 1, Len(refpart))
             IN  [ok |-> TRUE,
                  refs |-> IF KeepRef(reader, refname)
                           THEN MapInsert(refs, refname, sha)
                           ELSE refs]
        ELSE [ok |-> FALSE, refs |-> refs]

\* a reader that takes Delimiter and ResponseEnd for the end as well
OnSentinel_Break(kind) == "ok"

\* the sentinel arms of the loop: Flush breaks, the other two are errors
OnSentinel(kind) == IF kind = "Flush" THEN "ok" ELSE "err"

(***************************************************************************)
(* The framer on one byte stream: a writer side that calls write_to and    *)
(* write_str (or a peer that writes raw bytes), and a reader side that     *)
(* calls read_from once the writer has closed the stream.                  *)
(***************************************************************************)
VARIABLES
    wire,           \* every byte written to the stream so far
    closed,         \* the writer has closed the stream
    chomp,          \* the chomp_newline argument the reader passes
    written,        \* history: what was written, and where each frame ends
    rpos,           \* number of bytes of wire the reader has consumed
    results         \* history: the result of each read_from call

fvars == <<wire, closed, chomp, written, rpos, results>>

VARIABLES
    areader,        \* which of the three advertisement readers runs
    apipe,          \* bytes the peer has written and the reader has not read
    aeof,           \* the peer has closed its end
    alines,         \* history: the packets the peer has sent
    aread,          \* number of packets the reader has taken
    acaps,          \* the capability map being built
    arefs,          \* the ref map being built
    apc             \* "reading", "ok" (returned Ok), "err" (returned Err)

avars == <<areader, apipe, aeof, alines, aread, acaps, arefs, apc>>

VARIABLES
    nargs,          \* the arguments of request_pack and the source's answer
    nwant,          \* what is left of the want iterator
    nhave,          \* what is left of the have iterator
    ncaps,          \* what is left of the (fused) capability iterator
    nsent_want,     \* the local sent_want
    nout,           \* bytes written to self.writer
    nin,            \* bytes self.reader has still to deliver
    nlog,           \* history: the writes and reads, in order
    npc,            \* where request_pack stands
    nret            \* its return value, "none" until it returns

nvars == <<nargs, nwant, nhave, ncaps, nsent_want, nout, nin, nlog, npc, nret>>

(***************************************************************************)
(* The push command emitter, send_refchange(writer, existing, target,      *)
(* caps), as main calls it.  Its body is not among the source files; it is *)
(* modelled from section 4.5 of the design.                                *)
(***************************************************************************)
VARIABLES
    eargs,          \* the arguments of the call: existing, target, caps
    etodo,          \* candidate names the loop has not visited yet
    eemitted,       \* a command has been emitted
    esending,       \* a command with a non-null new identifier was emitted
    eout,           \* the bytes written to the destination
    epc,            \* where the emitter stands
    eret            \* its return value, "none" until it returns

evars == <<eargs, etodo, eemitted, esending, eout, epc, eret>>

(***************************************************************************)
(* The orchestrator, main: the source peer (git-upload-pack) and the       *)
(* destination peer (git-receive-pack), each with the byte stream it sends *)
(* and the byte stream it receives.                                        *)
(***************************************************************************)
VARIABLES
    osrc_in,        \* bytes of upload_pack's stdout that main has not read
    odst_in,        \* bytes of receive_pack's stdout that main has not read
    osrc_out,       \* bytes main has written to upload_pack's stdin
    odst_out,       \* bytes main has written to receive_pack's stdin
    ohung,          \* the peers that have closed their stdin
    olog,           \* history: every read and write on a peer, in order
    opc,            \* where main stands
    osrc_refs,      \* source_advert.refs()
    odst_refs,      \* target_advert.refs()
    owants,         \* wants
    ohaves,         \* haves
    oexp,           \* expecting_pack_data
    osend,          \* expecting_to_send, "none" until send_refchange returns
    ocmd_end,       \* history: length of odst_out when send_refchange returned
    orelay_in,      \* history: the packets the relay loop has read
    orp_out,        \* rp_out
    ocursor         \* the unread rest of Cursor::new(rp_out)

ovars == <<osrc_in, odst_in, osrc_out, odst_out, ohung, olog, opc, osrc_refs,
           odst_refs, owants, ohaves, oexp, osend, ocmd_end, orelay_in,
           orp_out, ocursor>>

\* the state of each component while it is not in use
FIdle ==
    /\ wire = <<>>
    /\ closed = FALSE
    /\ chomp = FALSE
    /\ written = <<>>
    /\ rpos = 0
    /\ results = <<>>

AIdle ==
    /\ areader = "none"
    /\ apipe = <<>>
    /\ aeof = FALSE
    /\ alines = <<>>
    /\ aread = 0
    /\ acaps = EmptyMap
    /\ arefs = EmptyMap
    /\ apc = "idle"

NIdle ==
    /\ nargs = [want |-> <<>>, have |-> <<>>, caps |-> <<>>, resp |-> <<>>]
    /\ nwant = <<>>
    /\ nhave = <<>>
    /\ ncaps = <<>>
    /\ nin = <<>>
    /\ npc = "idle"
    /\ nsent_want = FALSE
    /\ nout = <<>>
    /\ nlog = <<>>
    /\ nret = "none"

EIdle ==
    /\ eargs = [existing |-> EmptyMap, target |-> EmptyMap, caps |-> <<>>]
    /\ etodo = {}
    /\ eemitted = FALSE
    /\ esending = FALSE
    /\ eout = <<>>
    /\ epc = "idle"
    /\ eret = "none"

OIdle ==
    /\ osrc_in = <<>>
    /\ odst_in = <<>>
    /\ osrc_out = <<>>
    /\ odst_out = <<>>
    /\ ohung = {}
    /\ olog = <<>>
    /\ opc = "idle"
    /\ osrc_refs = EmptyMap
    /\ odst_refs = EmptyMap
    /\ owants = {}
    /\ ohaves = {}
    /\ oexp = FALSE
    /\ osend = "none"
    /\ ocmd_end = 0
    /\ orelay_in = <<>>
    /\ orp_out = <<>>
    /\ ocursor = <<>>

(***************************************************************************)
(* The capability registry: a caller that turns a symbol into its token    *)
(* and parses it back, or parses a string it was given.                    *)
(***************************************************************************)
VARIABLES
    cin,            \* the caller's input: a Capability or a string
    ctoken,         \* what as_str returned, None before the call
    cresult,        \* what try_from returned, None before the call
    cpc             \* where the caller stands

cvars == <<cin, ctoken, cresult, cpc>>

CIdle ==
    /\ cin = [kind |-> "none"]
    /\ ctoken = <<>>
    /\ cresult = <<>>
    /\ cpc = "idle"

\* the byte values small payloads are made of: '\n' and 'a'
PayloadBytes == {LF, ChA}

\* all sequences over S of length at most n
SeqsUpTo(S, n) == UNION {[1..k -> S] : k \in 0..n}

SmallPayloads == SeqsUpTo(PayloadBytes, MaxSmall)

\* the largest value four hexadecimal digits can hold
HeaderMax == 16 * 16 * 16 * 16 - 1

\* long payloads: the longest the data model allows, the longest whose
\* length still fits four digits, and the first that does not
BigLens == {65515, HeaderMax - 4, HeaderMax - 3}
\* a long payload: a filler of n bytes 'a'
BigPayload(n) == Rep(ChA, n)

\* header bytes a peer may send: digits, a letter digit, and a non-digit 'G'
RawHeaderBytes == {48, 51, 52, 54, 71, 102}
RawHeaders == [1..4 -> RawHeaderBytes]

IsBig(b) == Len(b) > MaxSmall

\* a history entry for one write: who wrote, the packet's kind, its payload
\* (a long payload, always a filler of n bytes 'a', is kept as n alone) and
\* the stream offset at which the frame ends
Wrote(via, p, e) ==
    [via |-> via, kind |-> p.kind,
     n |-> IF p.kind = "Data" THEN Len(p.data) ELSE 0,
     data |-> IF p.kind = "Data" /\ ~IsBig(p.data) THEN p.data ELSE <<>>,
     end |-> e]

\* the payload a history entry stands for
PayloadOf(w) == IF w.n > MaxSmall THEN BigPayload(w.n) ELSE w.data

\* the packet a history entry stands for
PacketOf(w) == IF w.kind = "Data" THEN Data(PayloadOf(w)) ELSE [kind |-> w.kind]

\* the writer may write one more frame: the stream is open, holds fewer than
\* MaxFramePkts frames, none of them raw or long
CanWrite ==
    /\ ~closed
    /\ Len(written) < MaxFramePkts
    /\ \A i \in 1..Len(written) :
          written[i].via # "raw" /\ written[i].n <= MaxSmall

\* the payloads the writer may write next: a long one only as first frame
NextPayloads ==
    SmallPayloads
        \cup (IF written = <<>> THEN {BigPayload(n) : n \in BigLens} ELSE {})


\* the writer calls p.write_to(stream)
FWriteTo ==
    /\ CanWrite
    /\ \E p \in {Flush, Delimiter, ResponseEnd} \cup {Data(b) : b \in NextPayloads} :
          /\ wire' = wire \o WriteTo(p)
          /\ written' = Append(written, Wrote("write_to", p, Len(wire')))
    /\ UNCHANGED <<closed, chomp, rpos, results, avars, nvars, evars, ovars, cvars>>

\* the writer calls ProtocolLine::write_str(stream, s)
FWriteStr ==
    /\ CanWrite
    /\ \E s \in NextPayloads :
          /\ wire' = wire \o WriteStr(s)
          /\ written' = Append(written, Wrote("write_str", Data(s), Len(wire')))
    /\ UNCHANGED <<closed, chomp, rpos, results, avars, nvars, evars, ovars, cvars>>

\* a peer writes a four-byte header h and k further bytes
FPeerRaw ==
    /\ ~closed
    /\ written = <<>>
    /\ \E h \in RawHeaders, k \in 0..MaxRaw :
          /\ wire' = h \o Rep(ChA, k)
          /\ written' = <<Wrote("raw", Data(<<>>), Len(wire'))>>
    /\ UNCHANGED <<closed, chomp, rpos, results, avars, nvars, evars, ovars, cvars>>

\* the writer closes the stream; the reader picks its chomp_newline mode
FClose ==
    /\ ~closed
    /\ closed' = TRUE
    /\ chomp' \in BOOLEAN
    /\ UNCHANGED <<wire, written, rpos, results, avars, nvars, evars, ovars, cvars>>

\* the reader calls ProtocolLine::read_from(stream, chomp)
FRead ==
    /\ closed
    /\ \A i \in 1..Len(results) : results[i].status = "Ok"
    /\ \E bld \in Builds :
         LET r == ReadFrom(SubSeq(wire, rpos + 1, Len(wire)), chomp, bld)
         IN  /\ results' = Append(results,
                    IF r.status = "Ok" THEN [status |-> "Ok", line |-> r.line]
                    ELSE IF r.status = "Err" THEN [status |-> "Err", err |-> r.err]
                    ELSE r)
             /\ rpos' = IF r.status = "Panic" THEN rpos
                        ELSE Len(wire) - Len(r.rest)
    /\ UNCHANGED <<wire, closed, chomp, written, avars, nvars, evars, ovars, cvars>>

FNext == FWriteTo \/ FWriteStr \/ FPeerRaw \/ FClose \/ FRead

(***************************************************************************)
(* One advertisement reader on the stream of one peer.  The peer writes    *)
(* whole packets and may close its end; the reader runs its loop, one      *)
(* read_from(reader, true) per step.                                        *)
(***************************************************************************)
\* a capability token as the peer writes it: name, then '=' and a value
Tok(n, v) == [name |-> n, val |-> v]
TokBytes(t) == t.name \o (IF t.val = None THEN <<>> ELSE <<EQ>> \o t.val[1])

RECURSIVE JoinToks(_)
JoinToks(toks) ==
    IF toks = <<>> THEN <<>>
    ELSE IF Len(toks) = 1 THEN TokBytes(toks[1])
    ELSE TokBytes(toks[1]) \o <<SP>> \o JoinToks(Tail(toks))

\* an advertisement line as the peer composes it:
\*   sha [SP] name [NUL cap SP cap ...] more [LF]
AdvLine(sha, sep, name, hascaps, caps, more, nl) ==
    [kind |-> "Data", sha |-> sha, sep |-> sep, name |-> name,
     hascaps |-> hascaps, caps |-> caps, more |-> more, nl |-> nl]

LinePayload(l) ==
    l.sha \o (IF l.sep THEN <<SP>> ELSE <<>>) \o l.name
        \o (IF l.hascaps THEN <<NUL>> \o JoinToks(l.caps) ELSE <<>>)
        \o l.more \o (IF l.nl THEN <<LF>> ELSE <<>>)

\* the packet that carries a line
LinePacket(l) == IF l.kind = "Data" THEN Data(LinePayload(l)) ELSE [kind |-> l.kind]

\* two object identifiers
ShaA == Rep(97, 40)
ShaB == Rep(98, 40)

\* names and tokens the peers use
N_HEAD == <<72, 69, 65, 68>>
N_main == <<114, 101, 102, 115, 47, 104, 101, 97, 100, 115, 47, 109, 97, 105, 110>>
N_v1peeled == <<114, 101, 102, 115, 47, 116, 97, 103, 115, 47, 118, 49, 94, 123, 125>>
N_junk == <<106, 117, 110, 107>>
T_report == Tok(as_str("ReportStatus"), None)
T_atomic == Tok(as_str("Atomic"), None)
T_agent == Tok(as_str("Agent"), None)
T_agent_x1 == Tok(as_str("Agent"), Some(<<120, 47, 49>>))
T_agent_y == Tok(as_str("Agent"), Some(<<121>>))
T_foo_1 == Tok(<<102, 111, 111>>, Some(<<49>>))
T_symref == Tok(as_str("SymRef"), Some(<<72, 69, 65, 68, 58, 114, 101, 102, 115, 61, 120>>))
T_empty == Tok(<<>>, None)

\* the line of an empty repository
L_EmptyRepo ==
    AdvLine(NULLSHA, TRUE, CapabilitiesName, TRUE,
            <<T_report, T_agent_x1>>, <<>>, TRUE)
\* a value that holds an '=', an unknown capability, no newline
L_Head ==
    AdvLine(ShaA, TRUE, N_HEAD, TRUE,
            <<T_symref, T_foo_1, T_atomic>>, <<>>, FALSE)
\* the same capability twice, the second time without a value, an empty
\* token (two spaces) between them; a second NUL and text behind it
L_MainCaps ==
    AdvLine(ShaB, TRUE, N_main, TRUE,
            <<T_agent_y, T_empty, T_agent>>, <<NUL>> \o as_str("Quiet"), TRUE)
\* plain lines, one of them a peeled tag
L_Main == AdvLine(ShaA, TRUE, N_main, FALSE, <<>>, <<>>, TRUE)
L_Peeled == AdvLine(ShaB, TRUE, N_v1peeled, FALSE, <<>>, <<>>, TRUE)
\* no space in the ref part
L_Junk == AdvLine(ShaA, FALSE, N_junk, TRUE, <<T_atomic>>, <<>>, TRUE)

\* the lines a peer may send
AdvDataLines == {L_EmptyRepo, L_Head, L_MainCaps, L_Main, L_Peeled, L_Junk}

AdvPackets == AdvDataLines \cup {Flush, Delimiter, ResponseEnd}

\* the bytes the peer writes for each of them: its own pkt-line framing
AdvFrame == [l \in AdvPackets |-> WriteTo(LinePacket(l))]

\* the peer writes one more packet
APeerSend ==
    /\ ~aeof
    /\ Len(alines) < MaxAdvPkts
    /\ \E l \in AdvPackets :
          /\ alines' = Append(alines, l)
          /\ apipe' = apipe \o AdvFrame[l]
    /\ UNCHANGED <<areader, aeof, aread, acaps, arefs, apc, fvars, nvars, evars, ovars, cvars>>

\* the peer closes its end of the stream
APeerClose ==
    /\ ~aeof
    /\ aeof' = TRUE
    /\ UNCHANGED <<areader, apipe, alines, aread, acaps, arefs, apc, fvars, nvars, evars, ovars, cvars>>

\* an error return: RefAdvertisement::read_from drops the maps it was
\* building, the two methods leave what they had put in self
AdvFail ==
    /\ apc' = "err"
    /\ acaps' = IF areader = "RefAdvertisement" THEN EmptyMap ELSE acaps
    /\ arefs' = IF areader = "RefAdvertisement" THEN EmptyMap ELSE arefs

\* one pass of the reader's loop: read a packet with chomp_newline = true
\* and handle it.  The read waits while the peer's end is open and silent.
AReadLine ==
    /\ apc = "reading"
    /\ apipe # <<>> \/ aeof
    /\ \E bld \in Builds :
         LET r == ReadFrom(apipe, TRUE, bld)
         IN  CASE r.status = "Panic" ->
                    /\ apc' = "panic"
                    /\ UNCHANGED <<apipe, aread, acaps, arefs>>
               [] r.status = "Err" ->
                    /\ AdvFail
                    /\ apipe' = r.rest
                    /\ UNCHANGED aread
               [] r.status = "Ok" /\ r.line.kind # "Data" ->
                    /\ apipe' = r.rest
                    /\ aread' = aread + 1
                    /\ IF OnSentinel(r.line.kind) = "ok"
                       THEN apc' = "ok" /\ UNCHANGED <<acaps, arefs>>
                       ELSE AdvFail
               [] r.status = "Ok" /\ r.line.kind = "Data" ->
                    /\ apipe' = r.rest
                    /\ aread' = aread + 1
                    /\ LET caps2 == AdvCaps(acaps, r.line.data)
                           rr == AdvRefs(areader, arefs, r.line.data)
                       IN  IF rr.ok
                           THEN /\ acaps' = caps2
                                /\ arefs' = rr.refs
                                /\ apc' = "reading"
                           ELSE /\ apc' = "err"
                                /\ acaps' = IF areader = "RefAdvertisement"
                                            THEN EmptyMap ELSE caps2
                                /\ arefs' = IF areader = "RefAdvertisement"
                                            THEN EmptyMap ELSE arefs
    /\ UNCHANGED <<areader, aeof, alines, fvars, nvars, evars, ovars, cvars>>

ANext == APeerSend \/ APeerClose \/ AReadLine

(***************************************************************************)
(* GitFetch::request_pack on the streams of the source peer.  Every        *)
(* write_str, write_to and read_from is one step.                          *)
(***************************************************************************)
\* "want ", "have ", "done", "NAK"
S_want == <<119, 97, 110, 116, 32>>
S_have == <<104, 97, 118, 101, 32>>
S_done == <<100, 111, 110, 101>>
S_NAK == <<78, 65, 75>>

\* the text one capability adds to the first want: ' ', its token, and
\* '=' with the value when there is one
CapText(cap) ==
    <<SP>> \o as_str(cap[1])
        \o (IF cap[2] # None THEN <<EQ>> \o cap[2][1] ELSE <<>>)

\* `for cap in &mut caps`: the text of all capabilities left in the iterator
RECURSIVE CapsText(_)
CapsText(caps) ==
    IF caps = <<>> THEN <<>> ELSE CapText(Head(caps)) \o CapsText(Tail(caps))

\* the command of one pass of `for sha in want`
WantCmd(sha, caps) == S_want \o sha \o CapsText(caps)

\* a loop that leaves the capability iterator as it found it
CapsAfterWant_Keep(caps) == caps

\* the capability iterator after a pass: the inner loop has drained it
CapsAfterWant(caps) == <<>>

\* format!("have {}", sha)
HaveCmd(sha) == S_have \o sha

\* a negotiator that goes on to the haves whatever it sent
AfterFlush_GoOn(sent_want) == "haves"

\* after the Flush: return Ok(false) when no want was sent
AfterFlush(sent_want) == IF ~sent_want THEN "Ok(false)" ELSE "haves"

\* a match that takes any Data packet for the acknowledgement
IsNak_AnyData(line) == line.kind = "Data"

\* the match on the packet read after done
IsNak(line) == line.kind = "Data" /\ line.data = S_NAK

\* capability lists a caller may attach: none, the list of the spec's
\* scenario, the orchestrator's list, and one with multi_ack
S_x1 == <<120, 47, 49>>
S_git_sync == <<103, 105, 116, 95, 115, 121, 110, 99, 47, 48, 46, 49>>
FetchCapLists ==
    { <<>>,
      << <<"ThinPack", None>>, <<"Agent", Some(S_x1)>> >>,
      << <<"SideBand64K", None>>, <<"OfsDelta", None>>, <<"ThinPack", None>>,
         <<"Agent", Some(S_git_sync)>> >>,
      << <<"MultiAck", None>>, <<"ThinPack", None>> >> }

\* identifiers a caller may want or hold
WantIds == {ShaA, ShaB}
HaveIds == {ShaB, NULLSHA}

\* what the source may answer: NAK (with and without newline, alone or
\* followed by a pack packet), other payloads, sentinels, nothing, and a
\* header whose value is below 4
S_ACK == <<65, 67, 75, 32>> \o ShaA
S_ERR == <<69, 82, 82, 32, 120>>
S_pack == <<1, 80, 65, 67, 75>>
Responses ==
    { WriteTo(Data(S_NAK)),
      WriteTo(Data(S_NAK \o <<LF>>)),
      WriteTo(Data(S_NAK \o <<LF>>)) \o WriteTo(Data(S_pack)) \o WriteTo(Flush),
      WriteTo(Data(S_ACK \o <<LF>>)),
      WriteTo(Data(S_ERR)),
      WriteTo(Data(<<>>)),
      WriteTo(Flush), WriteTo(Delimiter), WriteTo(ResponseEnd),
      HdrReserved,
      <<48, 48, 48, 71>>,
      <<>> }

WriteEv(line) == [op |-> "write", line |-> line]
ReadEv == [op |-> "read"]

\* one pass of `for sha in want`: build the command, write it
NWant ==
    /\ npc = "wants"
    /\ nwant # <<>>
    /\ LET cmd == WantCmd(Head(nwant), ncaps)
       IN  /\ nout' = nout \o WriteStr(cmd)
           /\ nlog' = Append(nlog, WriteEv(Data(cmd)))
    /\ ncaps' = CapsAfterWant(ncaps)
    /\ nsent_want' = TRUE
    /\ nwant' = Tail(nwant)
    /\ UNCHANGED <<nargs, nhave, nin, npc, nret, fvars, avars, evars, ovars, cvars>>

\* the Flush after the wants, and the early return
NFlush ==
    /\ npc = "wants"
    /\ nwant = <<>>
    /\ nout' = nout \o WriteTo(Flush)
    /\ nlog' = Append(nlog, WriteEv(Flush))
    /\ IF AfterFlush(nsent_want) = "Ok(false)"
       THEN npc' = "returned" /\ nret' = "Ok(false)"
       ELSE npc' = "haves" /\ nret' = nret
    /\ UNCHANGED <<nargs, nwant, nhave, ncaps, nin, nsent_want, fvars, avars, evars, ovars, cvars>>

\* one pass of `for sha in have`
NHave ==
    /\ npc = "haves"
    /\ nhave # <<>>
    /\ nout' = nout \o WriteStr(HaveCmd(Head(nhave)))
    /\ nlog' = Append(nlog, WriteEv(Data(HaveCmd(Head(nhave)))))
    /\ nhave' = Tail(nhave)
    /\ UNCHANGED <<nargs, nwant, ncaps, nin, npc, nsent_want, nret, fvars, avars, evars, ovars, cvars>>

\* write_str(writer, "done")
NDone ==
    /\ npc = "haves"
    /\ nhave = <<>>
    /\ nout' = nout \o WriteStr(S_done)
    /\ nlog' = Append(nlog, WriteEv(Data(S_done)))
    /\ npc' = "read"
    /\ UNCHANGED <<nargs, nwant, nhave, ncaps, nin, nsent_want, nret, fvars, avars, evars, ovars, cvars>>

\* read one packet with chomp_newline = true and match it against NAK
NReadNak ==
    /\ npc = "read"
    /\ \E bld \in Builds :
         LET r == ReadFrom(nin, TRUE, bld)
         IN  /\ nin' = IF r.status = "Panic" THEN nin ELSE r.rest
             /\ npc' = IF r.status = "Panic" THEN "panic" ELSE "returned"
             /\ nret' = IF r.status = "Panic" THEN nret
                        ELSE IF r.status = "Ok" /\ IsNak(r.line) THEN "Ok(true)"
                        ELSE "Err"
    /\ nlog' = Append(nlog, ReadEv)
    /\ UNCHANGED <<nargs, nwant, nhave, ncaps, nsent_want, nout, fvars, avars, evars, ovars, cvars>>

NNext == NWant \/ NFlush \/ NHave \/ NDone \/ NReadNak

(***************************************************************************)
(* send_refchange: the pure parts, then the call step by step.             *)
(***************************************************************************)
\* the three values of SendActivity
SendActivity == {"Nothing", "Deleting", "Sending"}

\* "refs/" and str::starts_with
RefsPrefix == <<114, 101, 102, 115, 47>>
StartsWith(s, prefix) ==
    /\ Len(s) >= Len(prefix)
    /\ SubSeq(s, 1, Len(prefix)) = prefix

\* a candidate set that keeps the peeled names
Candidates_KeepPeeled(existing, target) ==
    {r \in (DOMAIN existing) \cup (DOMAIN target) : StartsWith(r, RefsPrefix)}

\* step 1: the keys of both maps that begin with refs/ and do not end
\* with ^{}
Candidates(existing, target) ==
    {r \in (DOMAIN existing) \cup (DOMAIN target) :
        StartsWith(r, RefsPrefix) /\ ~EndsWith(r, PeeledSuffix)}

\* step 2: the value of the map, or the null identifier when absent
OldOf(existing, r) == IF r \in DOMAIN existing THEN existing[r] ELSE NULLSHA
NewOf(target, r) == IF r \in DOMAIN target THEN target[r] ELSE NULLSHA

\* step 3: the space-joined capability tokens with optional =value
RECURSIVE PushCapsText(_)
PushCapsText(caps) ==
    IF caps = <<>> THEN <<>>
    ELSE as_str(Head(caps)[1])
            \o (IF Head(caps)[2] # None THEN <<EQ>> \o Head(caps)[2][1] ELSE <<>>)
            \o (IF Len(caps) > 1 THEN <<SP>> ELSE <<>>)
            \o PushCapsText(Tail(caps))

\* step 3: the payload of one command; the first carries NUL and the
\* capabilities behind the refname
Command(old, new, r, caps, first) ==
    old \o <<SP>> \o new \o <<SP>> \o r
        \o (IF first THEN <<NUL>> \o PushCapsText(caps) ELSE <<>>)
        \o <<LF>>

\* a classification that takes every push for one that sends objects
Classify_AnySends(emitted, sending) ==
    IF ~emitted THEN "Nothing" ELSE "Sending"

\* the return value
Classify(emitted, sending) ==
    IF ~emitted THEN "Nothing"
    ELSE IF sending THEN "Sending"
    ELSE "Deleting"

\* names and identifiers the two ref maps are made of
N_dev == <<114, 101, 102, 115, 47, 104, 101, 97, 100, 115, 47, 100, 101, 118>>
EmitNames == {N_HEAD, N_main, N_dev, N_v1peeled}
EmitIds == {ShaA, ShaB, NULLSHA}

\* all ref maps of at most MaxRefs entries
RefMaps ==
    UNION {[D -> EmitIds] :
             D \in {S \in SUBSET EmitNames : Cardinality(S) <= MaxRefs}}

\* the capability list main attaches to the push
UploadCaps ==
    << <<"ReportStatus", None>>, <<"Atomic", None>>, <<"SideBand64K", None>>,
       <<"Agent", Some(S_git_sync)>> >>
\* the lists a caller may pass: that one, and none
PushCapLists == {<<>>, UploadCaps}

\* one pass of the loop over the candidate set, in any order: skip the
\* name when old = new, else emit its command
ERef ==
    /\ epc = "refs"
    /\ etodo # {}
    /\ \E r \in etodo :
         LET old == OldOf(eargs.existing, r)
             new == NewOf(eargs.target, r)
         IN  /\ etodo' = etodo \ {r}
             /\ IF old = new
                THEN UNCHANGED <<eout, eemitted, esending>>
                ELSE /\ eout' = eout \o
                          WriteStr(Command(old, new, r, eargs.caps, ~eemitted))
                     /\ eemitted' = TRUE
                     /\ esending' = (esending \/ new # NULLSHA)
    /\ UNCHANGED <<eargs, epc, eret, fvars, avars, nvars, ovars, cvars>>

\* step 5 and the return
EFlush ==
    /\ epc = "refs"
    /\ etodo = {}
    /\ eout' = eout \o WriteTo(Flush)
    /\ eret' = Classify(eemitted, esending)
    /\ epc' = "returned"
    /\ UNCHANGED <<eargs, etodo, eemitted, esending, fvars, avars, nvars, ovars, cvars>>

ENext == ERef \/ EFlush

(***************************************************************************)
(* main: the calls it makes as functions of what they read, then main      *)
(* itself, one action per call and per pass of a loop.                     *)
(***************************************************************************)
\* an entry of the history: peer, op ("read", "write"), the phase of main,
\* what was read or written, and whether the operation succeeded
Ev(peer, op, phase, what, ok) ==
    [peer |-> peer, op |-> op, phase |-> phase, what |-> what, ok |-> ok]

\* an operator `?` that lets an error pass
Propagate_Swallow(status, next) ==
    IF status = "Panic" THEN "panicked" ELSE next

\* the operator `?` on an io::Result: an Err makes main return it; a panic
\* aborts main
Propagate(status, next) ==
    IF status = "Err" THEN "failed"
    ELSE IF status = "Panic" THEN "panicked"
    ELSE next

\* RefAdvertisement::read_from on a stream, to its return: the result, the
\* unread rest and what each read_from call gave
RECURSIVE ReadAdvertisement(_, _, _, _, _)
ReadAdvertisement(stream, caps, refs, kinds, bld) ==
    LET r == ReadFrom(stream, TRUE, bld)
    IN  CASE r.status = "Panic" ->
               [status |-> "Panic", refs |-> EmptyMap, rest |-> stream,
                kinds |-> Append(kinds, "panic")]
          [] r.status = "Err" ->
               [status |-> "Err", refs |-> EmptyMap, rest |-> r.rest,
                kinds |-> Append(kinds, "err")]
          [] r.status = "Ok" /\ r.line.kind # "Data" ->
               IF OnSentinel(r.line.kind) = "ok"
               THEN [status |-> "Ok", refs |-> refs, rest |-> r.rest,
                     kinds |-> Append(kinds, r.line.kind)]
               ELSE [status |-> "Err", refs |-> EmptyMap, rest |-> r.rest,
                     kinds |-> Append(kinds, r.line.kind)]
          [] r.status = "Ok" /\ r.line.kind = "Data" ->
               LET rr == AdvRefs("RefAdvertisement", refs, r.line.data)
               IN  IF rr.ok
                   THEN ReadAdvertisement(r.rest, AdvCaps(caps, r.line.data),
                                          rr.refs, Append(kinds, "Data"), bld)
                   ELSE [status |-> "Err", refs |-> EmptyMap, rest |-> r.rest,
                         kinds |-> Append(kinds, "Data")]

\* the history entries of a run of reads; the last one failed unless the
\* call returned Ok
ReadEvs(peer, phase, kinds, status) ==
    [i \in 1..Len(kinds) |->
        Ev(peer, "read", phase, kinds[i], ~(i = Len(kinds) /\ status # "Ok"))]

\* the values of a ref map
Values(refs) == {refs[k] : k \in DOMAIN refs}

\* a wanted set that keeps the peeled names' identifiers
Wants_KeepPeeled(source_refs, target_refs) ==
    {source_refs[k] :
        k \in {x \in DOMAIN source_refs :
                  ~(\E vv \in Values(target_refs) : source_refs[x] = vv)}}

\* wants: the values of the source's refs, without the peeled names and
\* without what the target already has
Wants(source_refs, target_refs) ==
    {source_refs[k] :
        k \in {x \in DOMAIN source_refs :
                  /\ ~EndsWith(x, PeeledSuffix)
                  /\ ~(\E vv \in Values(target_refs) : source_refs[x] = vv)}}

\* haves: the values of the target's refs
Haves(target_refs) == Values(target_refs)

\* caps, the list main attaches to the first want
FetchCaps ==
    << <<"SideBand64K", None>>, <<"OfsDelta", None>>, <<"ThinPack", None>>,
       <<"Agent", Some(S_git_sync)>> >>

\* the orders in which an iterator over a HashSet may yield its elements
Orderings(S) ==
    {q \in [1..Cardinality(S) -> S] :
        \A i, j \in 1..Cardinality(S) : i # j => q[i] # q[j]}

\* write_str of every command of a list, one after the other
RECURSIVE WriteStrAll(_)
WriteStrAll(cmds) ==
    IF cmds = <<>> THEN <<>>
    ELSE WriteStr(Head(cmds)) \o WriteStrAll(Tail(cmds))

\* the commands of `for sha in want`
RECURSIVE WantCmds(_, _)
WantCmds(wants, caps) ==
    IF wants = <<>> THEN <<>>
    ELSE <<WantCmd(Head(wants), caps)>>
            \o WantCmds(Tail(wants), CapsAfterWant(caps))

\* request_pack(reader, writer, want, have, caps) to its return.  A write
\* to a peer that has closed its stdin fails; the first write is the first
\* want or, with no want, the Flush.
RequestPack(in, broken, wants, haves, caps, bld) ==
    LET W(what) == [op |-> "write", what |-> what, ok |-> TRUE]
        wout == WriteStrAll(WantCmds(wants, caps)) \o WriteTo(Flush)
        wevs == [i \in 1..Len(wants) |-> W("want")] \o <<W("flush")>>
        hout == WriteStrAll([i \in 1..Len(haves) |-> HaveCmd(haves[i])])
                    \o WriteStr(S_done)
        hevs == [i \in 1..Len(haves) |-> W("have")] \o <<W("done")>>
        r == ReadFrom(in, TRUE, bld)
        R(what, ok) == [op |-> "read", what |-> what, ok |-> ok]
    IN  IF broken
        THEN [status |-> "Err", out |-> <<>>, rest |-> in,
              evs |-> <<[op |-> "write",
                         what |-> IF wants = <<>> THEN "flush" ELSE "want",
                         ok |-> FALSE]>>]
        ELSE IF AfterFlush(wants # <<>>) = "Ok(false)"
        THEN [status |-> "Ok", out |-> wout, rest |-> in, evs |-> wevs]
        ELSE CASE r.status = "Panic" ->
                    [status |-> "Panic", out |-> wout \o hout, rest |-> in,
                     evs |-> wevs \o hevs \o <<R("panic", FALSE)>>]
               [] r.status = "Err" ->
                    [status |-> "Err", out |-> wout \o hout, rest |-> r.rest,
                     evs |-> wevs \o hevs \o <<R("err", FALSE)>>]
               [] r.status = "Ok" ->
                    [status |-> IF IsNak(r.line) THEN "Ok" ELSE "Err",
                     out |-> wout \o hout, rest |-> r.rest,
                     evs |-> wevs \o hevs
                               \o <<R(IF IsNak(r.line) THEN "NAK"
                                      ELSE r.line.kind, IsNak(r.line))>>]

\* the names of an order of visit whose old and new identifiers differ
RECURSIVE ChangedIn(_, _, _)
ChangedIn(order, existing, target) ==
    IF order = <<>> THEN <<>>
    ELSE (IF OldOf(existing, Head(order)) # NewOf(target, Head(order))
          THEN <<Head(order)>> ELSE <<>>)
            \o ChangedIn(Tail(order), existing, target)

\* send_refchange(writer, existing, target, caps) to its return, the
\* candidate set visited in the given order
SendRefchange(broken, existing, target, caps, order) ==
    LET ch == ChangedIn(order, existing, target)
        cmds == [i \in 1..Len(ch) |->
                    Command(OldOf(existing, ch[i]), NewOf(target, ch[i]),
                            ch[i], caps, i = 1)]
        W(what) == [op |-> "write", what |-> what, ok |-> TRUE]
    IN  IF broken
        THEN [status |-> "Err", ret |-> "none", out |-> <<>>,
              evs |-> <<[op |-> "write",
                         what |-> IF ch = <<>> THEN "flush" ELSE "command",
                         ok |-> FALSE]>>]
        ELSE [status |-> "Ok",
              ret |-> Classify(ch # <<>>,
                               \E i \in 1..Len(ch) :
                                   NewOf(target, ch[i]) # NULLSHA),
              out |-> WriteStrAll(cmds) \o WriteTo(Flush),
              evs |-> [i \in 1..Len(ch) |-> W("command")] \o <<W("flush")>>]

\* the history entries of a call's reads and writes
CallEvs(peer, phase, evs) ==
    [i \in 1..Len(evs) |-> Ev(peer, evs[i].op, phase, evs[i].what, evs[i].ok)]

\* a main that goes from the negotiation straight to the relay
AfterRequestPack_Relay == "relay"

\* what main does when request_pack has returned: send_refchange
AfterRequestPack == "emit"

\* a main that sends the empty pack whenever it relays nothing
PackBranch_AlwaysEmpty(expecting_pack_data, expecting_to_send) ==
    IF expecting_pack_data THEN "relay" ELSE "empty_pack"

\* the if / else if that follows send_refchange
PackBranch(expecting_pack_data, expecting_to_send) ==
    IF expecting_pack_data THEN "relay"
    ELSE IF expecting_to_send = "Sending" THEN "empty_pack"
    ELSE "die_upload"

\* a relay that passes every channel on
ToReceiver_AnyChannel(cow) == Some(SubSeq(cow, 2, Len(cow)))

\* the match on cow[0] in the relay loop: what goes to the receiver
ToReceiver(cow) == IF cow[1] = 1 THEN Some(SubSeq(cow, 2, Len(cow))) ELSE None

\* the empty pack: PACK, version 2, no objects, and the SHA-1 of those
\* twelve bytes
EMPTY_PACK ==
    <<80, 65, 67, 75, 0, 0, 0, 2, 0, 0, 0, 0,
      2, 157, 8, 130, 59, 216, 168, 234, 181, 16, 173, 106, 199, 92, 130, 60,
      253, 62, 211, 30>>

\* the phases in which main is still running
Running ==
    {"source_advert", "target_advert", "request_pack", "emit", "relay", "empty_pack", "die_upload", "report", "reparse", "die_receive"}

\* the bytes a peer writes for a sequence of lines and sentinels
RECURSIVE Frames(_)
Frames(pkts) ==
    IF pkts = <<>> THEN <<>>
    ELSE WriteTo(LinePacket(Head(pkts))) \o Frames(Tail(pkts))

\* more advertisement lines
L_MainB == AdvLine(ShaB, TRUE, N_main, FALSE, <<>>, <<>>, TRUE)
L_DevA == AdvLine(ShaA, TRUE, N_dev, FALSE, <<>>, <<>>, TRUE)
L_DevB == AdvLine(ShaB, TRUE, N_dev, FALSE, <<>>, <<>>, TRUE)

\* what upload-pack may advertise: an empty repository; HEAD and main at
\* the same commit; a detached HEAD beside main; main and a peeled tag; a
\* Delimiter instead of an advertisement
SrcAdverts ==
    { Frames(<<L_EmptyRepo, Flush>>),
      Frames(<<L_Head, L_Main, Flush>>),
      Frames(<<L_Head, L_MainB, Flush>>),
      Frames(<<L_Main, L_Peeled, Flush>>),
      Frames(<<Delimiter>>) }

\* what receive-pack may advertise: an empty repository; main at either
\* commit; dev at either commit; main and dev; a malformed line
DstAdverts ==
    { Frames(<<L_EmptyRepo, Flush>>),
      Frames(<<L_Main, Flush>>),
      Frames(<<L_MainB, Flush>>),
      Frames(<<L_DevA, Flush>>),
      Frames(<<L_DevB, Flush>>),
      Frames(<<L_Main, L_DevB, Flush>>),
      Frames(<<L_Junk, Flush>>) }

\* a side-band packet: the channel byte and the bytes behind it
Band(ch, bytes) == WriteTo(Data(<<ch>> \o bytes))

\* what upload-pack may send after its advertisement: NAK and a pack with
\* progress in between; NAK and no pack; an error message, then a
\* Delimiter with more behind it; a pack cut short by the reserved header;
\* ACK; a Data packet without a channel byte; an unknown channel and a
\* channel byte with nothing behind it; nothing at all
SrcAnswers ==
    { WriteTo(Data(S_NAK \o <<LF>>)) \o Band(1, <<80, 65, 67, 75>>)
          \o Band(2, <<119>>) \o Band(1, <<33>>) \o WriteTo(Flush),
      WriteTo(Data(S_NAK \o <<LF>>)) \o WriteTo(Flush),
      WriteTo(Data(S_NAK \o <<LF>>)) \o Band(3, <<101>>) \o WriteTo(Delimiter)
          \o Band(1, <<120>>) \o WriteTo(Flush),
      WriteTo(Data(S_NAK \o <<LF>>)) \o Band(1, <<80, 65>>) \o HdrReserved,
      WriteTo(Data(S_ACK \o <<LF>>)),
      WriteTo(Data(S_NAK \o <<LF>>)) \o WriteTo(Data(<<>>)) \o WriteTo(Flush),
      WriteTo(Data(S_NAK)) \o Band(9, <<122>>) \o Band(1, <<>>)
          \o WriteTo(Flush),
      <<>> }

\* "unpack ok\n"
S_unpack_ok == <<117, 110, 112, 97, 99, 107, 32, 111, 107, 10>>

\* what receive-pack may send after its advertisement: the report in one
\* side-band packet; progress, then the report in two pieces; a Flush and
\* no report; nothing; a Data packet without a channel byte; a report with
\* no Flush inside, ended by a ResponseEnd
DstReports ==
    { Band(1, WriteTo(Data(S_unpack_ok)) \o WriteTo(Flush)) \o WriteTo(Flush),
      Band(2, <<120>>) \o Band(1, SubSeq(WriteTo(Data(S_unpack_ok)), 1, 6))
          \o Band(1, SubSeq(WriteTo(Data(S_unpack_ok)), 7, 14)
                        \o WriteTo(Flush))
          \o WriteTo(Flush),
      WriteTo(Flush),
      <<>>,
      WriteTo(Data(<<>>)),
      Band(1, WriteTo(Data(S_unpack_ok))) \o WriteTo(ResponseEnd) }

\* RefAdvertisement::read_from(upload_pack.reader()).await?
OSourceAdvert ==
    /\ opc = "source_advert"
    /\ \E bld \in Builds :
         LET a == ReadAdvertisement(osrc_in, EmptyMap, EmptyMap, <<>>, bld)
         IN  /\ osrc_in' = a.rest
             /\ osrc_refs' = a.refs
             /\ olog' = olog \o ReadEvs("src", "advert", a.kinds, a.status)
             /\ opc' = Propagate(a.status, "target_advert")
    /\ UNCHANGED <<odst_in, osrc_out, odst_out, ohung, odst_refs, owants,
                   ohaves, oexp, osend, ocmd_end, orelay_in, orp_out, ocursor,
                   fvars, avars, nvars, evars, cvars>>

\* RefAdvertisement::read_from(receive_pack.reader()).await?
OTargetAdvert ==
    /\ opc = "target_advert"
    /\ \E bld \in Builds :
         LET a == ReadAdvertisement(odst_in, EmptyMap, EmptyMap, <<>>, bld)
         IN  /\ odst_in' = a.rest
             /\ odst_refs' = a.refs
             /\ olog' = olog \o ReadEvs("dst", "advert", a.kinds, a.status)
             /\ opc' = Propagate(a.status, "request_pack")
    /\ UNCHANGED <<osrc_in, osrc_out, odst_out, ohung, osrc_refs, owants,
                   ohaves, oexp, osend, ocmd_end, orelay_in, orp_out, ocursor,
                   fvars, avars, nvars, evars, cvars>>

\* wants, haves, expecting_pack_data, and request_pack(...).await?; the
\* value request_pack returns is dropped
ORequestPack ==
    /\ opc = "request_pack"
    /\ owants' = Wants(osrc_refs, odst_refs)
    /\ ohaves' = Haves(odst_refs)
    /\ oexp' = (Wants(osrc_refs, odst_refs) # {})
    /\ \E want_iter \in Orderings(Wants(osrc_refs, odst_refs)),
          have_iter \in Orderings(Haves(odst_refs)), bld \in Builds :
         LET c == RequestPack(osrc_in, "src" \in ohung, want_iter, have_iter,
                              FetchCaps, bld)
         IN  /\ osrc_in' = c.rest
             /\ osrc_out' = osrc_out \o c.out
             /\ olog' = olog \o CallEvs("src", "negotiate", c.evs)
             /\ opc' = Propagate(c.status, AfterRequestPack)
    /\ UNCHANGED <<odst_in, odst_out, ohung, osrc_refs, odst_refs, osend,
                   ocmd_end, orelay_in, orp_out, ocursor,
                   fvars, avars, nvars, evars, cvars>>

\* send_refchange(receive_pack.writer(), target_advert.refs(),
\* source_advert.refs(), upload_caps).await?, then the if / else if
OSendRefchange ==
    /\ opc = "emit"
    /\ \E order \in Orderings(Candidates(odst_refs, osrc_refs)) :
         LET c == SendRefchange("dst" \in ohung, odst_refs, osrc_refs,
                                UploadCaps, order)
         IN  /\ odst_out' = odst_out \o c.out
             /\ ocmd_end' = Len(odst_out \o c.out)
             /\ osend' = c.ret
             /\ olog' = olog \o CallEvs("dst", "emit", c.evs)
             /\ opc' = Propagate(c.status, PackBranch(oexp, c.ret))
    /\ UNCHANGED <<osrc_in, odst_in, osrc_out, ohung, osrc_refs, odst_refs,
                   owants, ohaves, oexp, orelay_in, orp_out, ocursor,
                   fvars, avars, nvars, evars, cvars>>

\* one pass of the relay loop: read a packet without chomping; channel 1
\* goes to the receiver with write_all, which writes nothing and cannot
\* fail when there are no bytes; cow[0] panics on an empty payload
ORelay ==
    /\ opc = "relay"
    /\ \E bld \in Builds :
         LET r == ReadFrom(osrc_in, FALSE, bld)
             rd(what, ok) == Ev("src", "read", "relay", what, ok)
             wr(ok) == Ev("dst", "write", "relay", "pack", ok)
         IN  CASE r.status = "Panic" ->
                    /\ opc' = Propagate("Panic", "relay")
                    /\ olog' = Append(olog, rd("panic", FALSE))
                    /\ UNCHANGED <<osrc_in, odst_out, orelay_in>>
               [] r.status = "Err" ->
                    /\ opc' = Propagate("Err", "relay")
                    /\ olog' = Append(olog, rd("err", FALSE))
                    /\ osrc_in' = r.rest
                    /\ UNCHANGED <<odst_out, orelay_in>>
               [] r.status = "Ok" /\ r.line.kind # "Data" ->
                    /\ opc' = "die_upload"
                    /\ olog' = Append(olog, rd(r.line.kind, TRUE))
                    /\ osrc_in' = r.rest
                    /\ orelay_in' = Append(orelay_in, r.line)
                    /\ UNCHANGED odst_out
               [] r.status = "Ok" /\ r.line.kind = "Data" ->
                    /\ osrc_in' = r.rest
                    /\ orelay_in' = Append(orelay_in, r.line)
                    /\ IF r.line.data = <<>>
                       THEN /\ opc' = "panicked"
                            /\ olog' = Append(olog, rd("Data", TRUE))
                            /\ UNCHANGED odst_out
                       ELSE LET data == ToReceiver(r.line.data)
                            IN  IF data = None
                                THEN /\ opc' = "relay"
                                     /\ olog' = Append(olog, rd("Data", TRUE))
                                     /\ UNCHANGED odst_out
                                ELSE IF data[1] = <<>>
                                THEN /\ opc' = "relay"
                                     /\ olog' = Append(olog, rd("Data", TRUE))
                                     /\ UNCHANGED odst_out
                                ELSE IF "dst" \in ohung
                                THEN /\ opc' = Propagate("Err", "relay")
                                     /\ olog' = olog \o <<rd("Data", TRUE),
                                                          wr(FALSE)>>
                                     /\ UNCHANGED odst_out
                                ELSE /\ opc' = "relay"
                                     /\ olog' = olog \o <<rd("Data", TRUE),
                                                          wr(TRUE)>>
                                     /\ odst_out' = odst_out \o data[1]
    /\ UNCHANGED <<odst_in, osrc_out, ohung, osrc_refs, odst_refs, owants,
                   ohaves, oexp, osend, ocmd_end, orp_out, ocursor,
                   fvars, avars, nvars, evars, cvars>>

\* receive_pack.writer().write_all(EMPTY_PACK).await?
OEmptyPack ==
    /\ opc = "empty_pack"
    /\ IF "dst" \in ohung
       THEN /\ opc' = Propagate("Err", "die_upload")
            /\ olog' = Append(olog, Ev("dst", "write", "empty_pack",
                                       "empty-pack", FALSE))
            /\ UNCHANGED odst_out
       ELSE /\ opc' = "die_upload"
            /\ olog' = Append(olog, Ev("dst", "write", "empty_pack",
                                       "empty-pack", TRUE))
            /\ odst_out' = odst_out \o EMPTY_PACK
    /\ UNCHANGED <<osrc_in, odst_in, osrc_out, ohung, osrc_refs, odst_refs,
                   owants, ohaves, oexp, osend, ocmd_end, orelay_in, orp_out,
                   ocursor, fvars, avars, nvars, evars, cvars>>

\* a main that waits for a report whatever send_refchange returned
ReportBranch_Always(expecting_to_send) == "report"

\* if !matches!(expecting_to_send, SendActivity::Nothing): the report is
\* read; otherwise main goes on to close receive-pack
ReportBranch(expecting_to_send) ==
    IF expecting_to_send # "Nothing" THEN "report" ELSE "die_receive"

\* upload_pack.die().await?, then the test on expecting_to_send
ODieUpload ==
    /\ opc = "die_upload"
    /\ opc' = ReportBranch(osend)
    /\ UNCHANGED <<osrc_in, odst_in, osrc_out, odst_out, ohung, olog,
                   osrc_refs, odst_refs, owants, ohaves, oexp, osend,
                   ocmd_end, orelay_in, orp_out, ocursor,
                   fvars, avars, nvars, evars, cvars>>

\* one pass of the loop that reads the report: channel 1 goes to rp_out
OReport ==
    /\ opc = "report"
    /\ \E bld \in Builds :
         LET r == ReadFrom(odst_in, FALSE, bld)
             rd(what, ok) == Ev("dst", "read", "report", what, ok)
         IN  CASE r.status = "Panic" ->
                    /\ opc' = Propagate("Panic", "report")
                    /\ olog' = Append(olog, rd("panic", FALSE))
                    /\ UNCHANGED <<odst_in, orp_out, ocursor>>
               [] r.status = "Err" ->
                    /\ opc' = Propagate("Err", "report")
                    /\ olog' = Append(olog, rd("err", FALSE))
                    /\ odst_in' = r.rest
                    /\ UNCHANGED <<orp_out, ocursor>>
               [] r.status = "Ok" /\ r.line.kind # "Data" ->
                    /\ opc' = "reparse"
                    /\ olog' = Append(olog, rd(r.line.kind, TRUE))
                    /\ odst_in' = r.rest
                    /\ ocursor' = orp_out
                    /\ UNCHANGED orp_out
               [] r.status = "Ok" /\ r.line.kind = "Data" ->
                    /\ odst_in' = r.rest
                    /\ olog' = Append(olog, rd("Data", TRUE))
                    /\ UNCHANGED ocursor
                    /\ IF r.line.data = <<>>
                       THEN opc' = "panicked" /\ UNCHANGED orp_out
                       ELSE /\ opc' = "report"
                            /\ orp_out' =
                                 IF r.line.data[1] = 1
                                 THEN orp_out \o SubSeq(r.line.data, 2,
                                                        Len(r.line.data))
                                 ELSE orp_out
    /\ UNCHANGED <<osrc_in, osrc_out, odst_out, ohung, osrc_refs, odst_refs,
                   owants, ohaves, oexp, osend, ocmd_end, orelay_in,
                   fvars, avars, nvars, evars, cvars>>

\* one pass of the loop that reads rp_out back through the framer, with
\* chomping; no peer is touched (the history names the cursor as the peer)
OReparse ==
    /\ opc = "reparse"
    /\ \E bld \in Builds :
         LET r == ReadFrom(ocursor, TRUE, bld)
             rd(what, ok) == Ev("cursor", "read", "reparse", what, ok)
         IN  CASE r.status = "Panic" ->
                    /\ opc' = Propagate("Panic", "reparse")
                    /\ olog' = Append(olog, rd("panic", FALSE))
                    /\ UNCHANGED ocursor
               [] r.status = "Err" ->
                    /\ opc' = Propagate("Err", "reparse")
                    /\ olog' = Append(olog, rd("err", FALSE))
                    /\ ocursor' = r.rest
               [] r.status = "Ok" /\ r.line.kind # "Data" ->
                    /\ opc' = "die_receive"
                    /\ olog' = Append(olog, rd(r.line.kind, TRUE))
                    /\ ocursor' = r.rest
               [] r.status = "Ok" /\ r.line.kind = "Data" ->
                    /\ opc' = "reparse"
                    /\ olog' = Append(olog, rd("Data", TRUE))
                    /\ ocursor' = r.rest
    /\ UNCHANGED <<osrc_in, odst_in, osrc_out, odst_out, ohung,
                   osrc_refs, odst_refs, owants, ohaves, oexp, osend,
                   ocmd_end, orelay_in, orp_out, fvars, avars, nvars, evars, cvars>>

\* receive_pack.die().await?, and Ok(())
ODieReceive ==
    /\ opc = "die_receive"
    /\ opc' = "done"
    /\ UNCHANGED <<osrc_in, odst_in, osrc_out, odst_out, ohung, olog,
                   osrc_refs, odst_refs, owants, ohaves, oexp, osend,
                   ocmd_end, orelay_in, orp_out, ocursor,
                   fvars, avars, nvars, evars, cvars>>

\* a peer closes its stdin (it exits, or its pipe breaks) while main runs
OHangup ==
    /\ opc \in Running
    /\ \E p \in {"src", "dst"} \ ohung : ohung' = ohung \cup {p}
    /\ UNCHANGED <<osrc_in, odst_in, osrc_out, odst_out, olog, opc,
                   osrc_refs, odst_refs, owants, ohaves, oexp, osend,
                   ocmd_end, orelay_in, orp_out, ocursor,
                   fvars, avars, nvars, evars, cvars>>

ONext ==
    \/ OSourceAdvert \/ OTargetAdvert \/ ORequestPack \/ OSendRefchange
    \/ ORelay \/ OEmptyPack \/ ODieUpload \/ OReport \/ OReparse
    \/ ODieReceive \/ OHangup

(***************************************************************************)
(* The callers of Capability::as_str and Capability::try_from.             *)
(***************************************************************************)
\* the 26 tokens
Tokens == {as_str(c) : c \in Capability}

\* the strings given to try_from: every token, and for every token the
\* strings one edit away: its last or first character dropped, an 'x' put
\* behind or a space before it, its first letter in upper case; and the
\* empty string
CapStrings ==
    {<<>>} \cup
    UNION {{t, SubSeq(t, 1, Len(t) - 1), Tail(t), t \o <<120>>, <<SP>> \o t,
            [t EXCEPT ![1] = @ - 32]} : t \in Tokens}

\* c.as_str()
CAsStr ==
    /\ cpc = "start" /\ cin.kind = "cap"
    /\ ctoken' = Some(as_str(cin.cap))
    /\ cpc' = "token"
    /\ UNCHANGED <<cin, cresult, fvars, avars, nvars, evars, ovars>>

\* Capability::try_from(c.as_str())
CTryFromToken ==
    /\ cpc = "token"
    /\ cresult' = Some(try_from(ctoken[1]))
    /\ cpc' = "back"
    /\ UNCHANGED <<cin, ctoken, fvars, avars, nvars, evars, ovars>>

\* Capability::try_from(s)
CTryFromValue ==
    /\ cpc = "start" /\ cin.kind = "str"
    /\ cresult' = Some(try_from(cin.value))
    /\ cpc' = "parsed"
    /\ UNCHANGED <<cin, ctoken, fvars, avars, nvars, evars, ovars>>

CNext == CAsStr \/ CTryFromToken \/ CTryFromValue

vars == <<fvars, avars, nvars, evars, ovars, cvars>>

FInit == FIdle /\ AIdle /\ NIdle /\ EIdle /\ OIdle /\ CIdle

\* main after both services were launched: each peer's output is one of
\* the streams above
OInit ==
    /\ FIdle
    /\ AIdle
    /\ NIdle
    /\ EIdle
    /\ CIdle
    /\ \E sa \in SrcAdverts, ans \in SrcAnswers : osrc_in = sa \o ans
    /\ \E da \in DstAdverts, rep \in DstReports : odst_in = da \o rep
    /\ osrc_out = <<>>
    /\ odst_out = <<>>
    /\ ohung = {}
    /\ olog = <<>>
    /\ opc = "source_advert"
    /\ osrc_refs = EmptyMap
    /\ odst_refs = EmptyMap
    /\ owants = {}
    /\ ohaves = {}
    /\ oexp = FALSE
    /\ osend = "none"
    /\ ocmd_end = 0
    /\ orelay_in = <<>>
    /\ orp_out = <<>>
    /\ ocursor = <<>>

\* a caller holding a symbol of the enumeration or a string
CInit ==
    /\ FIdle
    /\ AIdle
    /\ NIdle
    /\ EIdle
    /\ OIdle
    /\ cin \in {[kind |-> "cap", cap |-> c] : c \in Capability}
                \cup {[kind |-> "str", value |-> v] : v \in CapStrings}
    /\ ctoken = <<>>
    /\ cresult = <<>>
    /\ cpc = "start"

EInit ==
    /\ FIdle
    /\ AIdle
    /\ NIdle
    /\ OIdle
    /\ CIdle
    /\ \E ex \in RefMaps, tg \in RefMaps, c \in PushCapLists :
          /\ eargs = [existing |-> ex, target |-> tg, caps |-> c]
          /\ etodo = Candidates(ex, tg)
    /\ eemitted = FALSE
    /\ esending = FALSE
    /\ eout = <<>>
    /\ epc = "refs"
    /\ eret = "none"

AInit ==
    /\ FIdle
    /\ NIdle
    /\ EIdle
    /\ OIdle
    /\ CIdle
    /\ areader \in Readers
    /\ apipe = <<>>
    /\ aeof = FALSE
    /\ alines = <<>>
    /\ aread = 0
    /\ acaps = EmptyMap
    /\ arefs = EmptyMap
    /\ apc = "reading"

NInit ==
    /\ FIdle
    /\ AIdle
    /\ EIdle
    /\ OIdle
    /\ CIdle
    /\ \E w \in SeqsUpTo(WantIds, MaxWants), h \in SeqsUpTo(HaveIds, MaxHaves),
          c \in FetchCapLists, r \in Responses :
          /\ nargs = [want |-> w, have |-> h, caps |-> c, resp |-> r]
          /\ nwant = w
          /\ nhave = h
          /\ ncaps = c
          /\ nin = r
    /\ npc = "wants"
    /\ nsent_want = FALSE
    /\ nout = <<>>
    /\ nlog = <<>>
    /\ nret = "none"

FramerSpec == FInit /\ [][FNext]_vars

AdvertSpec == AInit /\ [][ANext]_vars

FetchSpec == NInit /\ [][NNext]_vars

EmitSpec == EInit /\ [][ENext]_vars

OrchSpec == OInit /\ [][ONext]_vars

CapSpec == CInit /\ [][CNext]_vars

(***************************************************************************)
(* Properties of the framer.                                               *)
(***************************************************************************)
\* the bytes the i-th write put on the stream
FrameOf(i) ==
    SubSeq(wire, (IF i = 1 THEN 0 ELSE written[i - 1].end) + 1, written[i].end)

IsLowerHex(c) == (c >= 48 /\ c <= 57) \/ (c >= 97 /\ c <= 102)

\* the first read has been made on a stream whose first frame write_to wrote
FirstReadOfWritten ==
    /\ closed /\ ~chomp
    /\ Len(results) >= 1
    /\ written # <<>> /\ written[1].via = "write_to"

\* C1: a packet that is Flush, Delimiter, ResponseEnd or Data(b) with
\* |b| <= 65515, written by write_to and decoded by read_from without
\* chomping, comes back as the same packet with the same payload bytes.
C1_RoundTrip ==
    (FirstReadOfWritten /\ written[1].n <= 65515)
        => results[1] = [status |-> "Ok", line |-> PacketOf(written[1])]

\* C1 witness: a Data packet with a payload has made the round trip
C1_Witness ==
    /\ FirstReadOfWritten
    /\ written[1].kind = "Data"
    /\ written[1].n = MaxSmall
    /\ results[1] = [status |-> "Ok", line |-> PacketOf(written[1])]

\* C2: every Data payload of length n given to write_to or write_str is
\* written as exactly four lowercase hexadecimal characters followed by the
\* n payload bytes, and the four characters spell n + 4, the number of bytes
\* written for the packet.
C2_HeaderIsLength ==
    \A i \in 1..Len(written) :
        (written[i].via # "raw" /\ written[i].kind = "Data") =>
            LET f == FrameOf(i)
                n == written[i].n
            IN  /\ Len(f) = n + 4
                /\ \A j \in 1..4 : IsLowerHex(f[j])
                /\ SubSeq(f, 5, Len(f)) = PayloadOf(written[i])
                /\ HeaderValue(SubSeq(f, 1, 4)) = Len(f)

\* the first read has been made on a stream that holds a whole header
FirstReadWithHeader == closed /\ Len(results) >= 1 /\ Len(wire) >= 4

FirstHeader == SubSeq(wire, 1, 4)

HeaderLiterals == {HdrFlush, HdrDelimiter, HdrResponseEnd, HdrReserved}

\* C3: for every header that is not 0000, 0001, 0002 or 0003, with L its
\* 16-bit value (bytes outside 0-9 and a-f counting as zero), the payload
\* length L - 4 is never negative and never wraps, and a packet that is
\* returned is a Data packet for which exactly L - 4 payload bytes were read.
C3_PayloadLength ==
    (FirstReadWithHeader /\ FirstHeader \notin HeaderLiterals) =>
        /\ HeaderValue(FirstHeader) >= 4
        /\ results[1].status # "Panic"
        /\ results[1].status = "Ok" =>
              /\ results[1].line.kind = "Data"
              /\ Len(wire) >= HeaderValue(FirstHeader)
              /\ Len(results[1].line.data) =
                    HeaderValue(FirstHeader) - 4
                      - (IF chomp /\ wire[HeaderValue(FirstHeader)] = LF
                            /\ HeaderValue(FirstHeader) > 4
                         THEN 1 ELSE 0)

\* C4: read_from returns no packet for malformed input: the header 0003 is
\* an error, a stream that ends inside the header or inside the declared
\* payload is an unexpected-EOF error, and no Data packet shorter than its
\* declared length is returned.
C4_MalformedIsError ==
    (closed /\ Len(results) >= 1) =>
        /\ Len(wire) < 4 =>
              results[1] = [status |-> "Err", err |-> "UnexpectedEof"]
        /\ (Len(wire) >= 4 /\ FirstHeader = HdrReserved) =>
              results[1].status = "Err"
        /\ (Len(wire) >= 4 /\ FirstHeader \notin HeaderLiterals
              /\ HeaderValue(FirstHeader) >= 4
              /\ Len(wire) < HeaderValue(FirstHeader)) =>
              results[1] = [status |-> "Err", err |-> "UnexpectedEof"]
        /\ (results[1].status = "Ok" /\ results[1].line.kind = "Data" /\ ~chomp) =>
              Len(results[1].line.data) = HeaderValue(FirstHeader) - 4

(***************************************************************************)
(* Properties of the advertisement readers.                                *)
(***************************************************************************)
\* the Data lines the reader has taken
ConsumedData == {i \in 1..aread : alines[i].kind = "Data"}

\* the bytes of the packets the peer sent after its k-th
RECURSIVE FramesAfter(_)
FramesAfter(k) ==
    IF k >= Len(alines) THEN <<>>
    ELSE AdvFrame[alines[k + 1]] \o FramesAfter(k + 1)

\* C5: the reader takes packets up to and including the first Flush and
\* none after it, and returns success there; a Delimiter or ResponseEnd
\* that arrives before the Flush makes it return an error and no
\* advertisement.
C5_StopsAtFirstFlush ==
    /\ apc = "ok" =>
          /\ aread >= 1
          /\ alines[aread].kind = "Flush"
          /\ \A i \in 1..(aread - 1) : alines[i].kind = "Data"
          /\ apipe = FramesAfter(aread)
    /\ \A i \in 1..aread :
          (/\ alines[i].kind \in {"Delimiter", "ResponseEnd"}
           /\ \A j \in 1..(i - 1) : alines[j].kind = "Data") =>
              /\ apc = "err"
              /\ aread = i
              /\ areader = "RefAdvertisement" =>
                    (acaps = EmptyMap /\ arefs = EmptyMap)

\* C5 witness: success at a Flush that followed a line, with a packet the
\* peer sent after the Flush still unread
C5_Witness ==
    /\ apc = "ok"
    /\ aread = 2
    /\ Len(alines) = 3
    /\ apipe = AdvFrame[alines[3]]

\* C6: for each of the three readers a line named capabilities^{} gives its
\* capabilities to the capability map and no entry to the ref map: after the
\* advertisement of an empty repository (that line, then Flush) the ref map
\* is empty.
C6_NoCapabilitiesRef ==
    apc = "ok" =>
        /\ CapabilitiesName \notin DOMAIN arefs
        /\ (aread = 2 /\ alines[1] = L_EmptyRepo) =>
              /\ arefs = EmptyMap
              /\ DOMAIN acaps = {"ReportStatus", "Agent"}

\* C7 (as claimed): after parsing, no key of the ref map ends with ^{}.
C7_NoPeeledKey ==
    apc = "ok" => \A k \in DOMAIN arefs : ~EndsWith(k, PeeledSuffix)

\* C7 (amended): the parser does not filter peeled names.  After parsing,
\* every key of the ref map is an advertised refname and every advertised
\* refname other than capabilities^{} is a key, those that end with ^{}
\* included.
C7_PeeledKept ==
    apc = "ok" =>
        LET names == {alines[i].name : i \in ConsumedData}
        IN  /\ DOMAIN arefs \subseteq names
            /\ names \ {CapabilitiesName} \subseteq DOMAIN arefs

\* C7 witness: a parse has ended with a peeled tag in the ref map
C7_Witness ==
    /\ apc = "ok"
    /\ N_v1peeled \in DOMAIN arefs
    /\ arefs[N_v1peeled] = ShaB

\* the places (line, position) at which the taken lines carry a capability
CapOccs ==
    UNION {{<<i, j>> : j \in 1..Len(alines[i].caps)} :
              i \in {k \in ConsumedData : alines[k].hascaps}}
OccsOf(c) == {o \in CapOccs : alines[o[1]].caps[o[2]].name = as_str(c)}
Later(o1, o2) == o1[1] > o2[1] \/ (o1[1] = o2[1] /\ o1[2] > o2[2])
LastOcc(c) ==
    CHOOSE o \in OccsOf(c) : \A o2 \in OccsOf(c) : o2 = o \/ Later(o, o2)

\* the payload read_from(reader, true) hands over for the line l
CowOf(l) == ReadFrom(WriteTo(LinePacket(l)), TRUE, "debug").line.data

\* the capability map after the first k of the lines ls
RECURSIVE CapsOfLines(_, _)
CapsOfLines(ls, k) ==
    IF k = 0 THEN EmptyMap
    ELSE IF ls[k].kind = "Data"
         THEN AdvCaps(CapsOfLines(ls, k - 1), CowOf(ls[k]))
         ELSE CapsOfLines(ls, k - 1)

Perms(n) == {p \in [1..n -> 1..n] : \A i, j \in 1..n : i # j => p[i] # p[j]}
DistinctNames(l) ==
    \A i, j \in 1..Len(l.caps) : i # j => l.caps[i].name # l.caps[j].name
Permuted(l, p) == [l EXCEPT !.caps = [i \in 1..Len(l.caps) |-> l.caps[p[i]]]]

\* C8: after a successful parse the capability map holds exactly the
\* recognised capabilities that stood in the NUL suffix (the text between
\* the first NUL and the next NUL or the end) of any line taken, each with
\* the value behind the first '=' of its last occurrence (None when that
\* occurrence has no '='); tokens that are not recognised are dropped without
\* an error; and permuting the tokens of a line whose capability names are
\* pairwise distinct leaves the map as it is.
C8_CapabilityMap ==
    apc = "ok" =>
        /\ DOMAIN acaps = {c \in Capability : OccsOf(c) # {}}
        /\ \A c \in DOMAIN acaps :
              acaps[c] = alines[LastOcc(c)[1]].caps[LastOcc(c)[2]].val
        /\ \A i \in ConsumedData :
              (alines[i].hascaps /\ DistinctNames(alines[i])) =>
                  \A p \in Perms(Len(alines[i].caps)) :
                      CapsOfLines([alines EXCEPT ![i] = Permuted(alines[i], p)],
                                  aread) = acaps

\* C8 witness: capabilities came on the second line as well, one of them
\* unknown, and the later line's value-less agent replaced agent=x/1
C8_Witness ==
    /\ apc = "ok"
    /\ aread = 3
    /\ alines[1] = L_Head
    /\ alines[2] = L_MainCaps
    /\ acaps = [c \in {"SymRef", "Atomic", "Agent"} |->
                  IF c = "SymRef" THEN T_symref.val ELSE None]

(***************************************************************************)
(* Properties of request_pack.                                             *)
(***************************************************************************)
IsWrite(e) == e.op = "write"
IsRead(e) == e.op = "read"

\* the packets written so far, in order
Writes ==
    LET w == SelectSeq(nlog, IsWrite) IN [i \in 1..Len(w) |-> w[i].line]

\* the packets a byte string holds, as read_from(_, false) decodes them
RECURSIVE DecodeAll(_)
DecodeAll(bytes) ==
    IF bytes = <<>> THEN <<>>
    ELSE LET r == ReadFrom(bytes, FALSE, "debug")
         IN  IF r.status = "Ok" THEN <<r.line>> \o DecodeAll(r.rest)
             ELSE <<[kind |-> "Undecodable"]>>

IsPrefix(a, b) == Len(a) <= Len(b) /\ SubSeq(b, 1, Len(a)) = a

\* C9: with an empty want iterator exactly the four bytes 0000 are written
\* to the source, whatever the have and capability iterators hold, nothing
\* is read from the source, and the result is Ok(false).
C9_ZeroWants ==
    (npc # "idle" /\ nargs.want = <<>>) =>
        /\ nout \in {<<>>, HdrFlush}
        /\ nin = nargs.resp
        /\ SelectSeq(nlog, IsRead) = <<>>
        /\ npc \in {"wants", "returned"}
        /\ npc = "returned" => (nout = HdrFlush /\ nret = "Ok(false)")

\* C9 witness: a call with no want, but with haves, capabilities and an
\* answer waiting, has returned
C9_Witness ==
    /\ npc = "returned"
    /\ nargs.want = <<>>
    /\ Len(nargs.have) = MaxHaves
    /\ nargs.caps # <<>>
    /\ nargs.resp = WriteTo(Data(S_NAK))

\* the capability text the claim puts on the first want
RECURSIVE ExpCapText(_, _)
ExpCapText(caps, k) ==
    IF k > Len(caps) THEN <<>>
    ELSE <<SP>> \o as_str(caps[k][1])
            \o (IF caps[k][2] = None THEN <<>> ELSE <<EQ>> \o caps[k][2][1])
            \o ExpCapText(caps, k + 1)

\* the packets the claim expects for the arguments of the call
Expected ==
    LET nw == Len(nargs.want)
        nh == Len(nargs.have)
    IN  [i \in 1..(nw + nh + 2) |->
            IF i <= nw
            THEN Data(S_want \o nargs.want[i]
                        \o (IF i = 1 THEN ExpCapText(nargs.caps, 1) ELSE <<>>))
            ELSE IF i = nw + 1 THEN Flush
            ELSE IF i <= nw + 1 + nh THEN Data(S_have \o nargs.have[i - nw - 1])
            ELSE Data(S_done)]

\* C10: with at least one want the packets written are, in this order and
\* with nothing else: one want per wanted identifier, the first with the
\* capability tokens and the later ones without, one Flush, one have per
\* held identifier, one done.  The one response packet is read only after
\* done has been written, and nothing is written after it.
C10_NegotiationOrder ==
    (npc # "idle" /\ nargs.want # <<>>) =>
        /\ IsPrefix(Writes, Expected)
        /\ DecodeAll(nout) = Writes
        /\ \A i \in 1..Len(nlog) :
              IsRead(nlog[i]) => (i = Len(nlog) /\ i = Len(Expected) + 1)
        /\ npc \in {"returned", "panic"} =>
              (Len(nlog) = Len(Expected) + 1 /\ IsRead(nlog[Len(nlog)]))

\* C10 witness: a call with two wants, a have and the capabilities
\* thin-pack and agent=x/1 has read NAK and returned Ok(true)
C10_Witness ==
    /\ npc = "returned"
    /\ nret = "Ok(true)"
    /\ Len(nargs.want) = 2
    /\ Len(nargs.have) >= 1
    /\ nargs.caps = << <<"ThinPack", None>>, <<"Agent", Some(S_x1)>> >>
    /\ Writes = Expected

\* the first packet of the source's answer as it stands on the wire
FirstAnswer == DecodeAll(nargs.resp)[1]

\* the call has gone past done and come back
AnsweredCall == npc = "returned" /\ nargs.want # <<>>

\* C11 (as claimed): after done, exactly one packet is read and the result
\* is Ok(true) only if that packet is a Data packet whose payload is the
\* three bytes NAK; any other packet gives an error.
C11_NakOnly ==
    AnsweredCall =>
        /\ Len(SelectSeq(nlog, IsRead)) = 1
        /\ nret = "Ok(true)" <=>
              (nargs.resp # <<>> /\ FirstAnswer = Data(S_NAK))
        /\ nret \in {"Ok(true)", "Err"}

\* C11 (amended): the packet is read with newline chomping, so the result is
\* Ok(true) exactly when the packet on the wire is a Data packet whose
\* payload is NAK or NAK followed by one newline; every other packet, and a
\* stream that holds no whole packet, gives an error.  One packet is read
\* and what the source sent behind it stays in the stream.
C11_NakChomped ==
    AnsweredCall =>
        /\ Len(SelectSeq(nlog, IsRead)) = 1
        /\ nret = "Ok(true)" <=>
              (/\ nargs.resp # <<>>
               /\ FirstAnswer \in {Data(S_NAK), Data(S_NAK \o <<LF>>)})
        /\ nret \in {"Ok(true)", "Err"}
        /\ (nargs.resp # <<>> /\ FirstAnswer.kind # "Undecodable") =>
              nargs.resp = WriteTo(FirstAnswer) \o nin

\* C11 witness: the source answered NAK with a newline and went on with the
\* pack; the call returned Ok(true) and the pack is still in the stream
C11_Witness ==
    /\ AnsweredCall
    /\ nret = "Ok(true)"
    /\ nargs.resp = WriteTo(Data(S_NAK \o <<LF>>)) \o nin
    /\ nin = WriteTo(Data(S_pack)) \o WriteTo(Flush)

\* t stands somewhere in s
HasSub(s, t) ==
    \E i \in 0..(Len(s) - Len(t)) : SubSeq(s, i + 1, i + Len(t)) = t

\* the attached list names multi_ack or multi_ack_detailed
Forbidden(caps) ==
    \E i \in 1..Len(caps) : caps[i][1] \in {"MultiAck", "MultiAckDetailed"}

\* C12: a call whose capability list holds multi_ack or multi_ack_detailed
\* is rejected with an error, and no want packet that advertises either of
\* them is written to the source.
C12_RejectsMultiAck ==
    (npc # "idle" /\ Forbidden(nargs.caps)) =>
        /\ npc = "returned" => nret = "Err"
        /\ \A i \in 1..Len(Writes) :
              Writes[i].kind = "Data" =>
                  /\ ~HasSub(Writes[i].data, as_str("MultiAck"))
                  /\ ~HasSub(Writes[i].data, as_str("MultiAckDetailed"))

(***************************************************************************)
(* Properties of send_refchange.                                           *)
(***************************************************************************)
\* the packets the emitter wrote, as the destination decodes them
EmitPackets == DecodeAll(eout)

\* the command packets: every packet before the last
EmitCommands == SubSeq(EmitPackets, 1, Len(EmitPackets) - 1)

\* a command payload taken apart: the text before the newline, split at
\* the first NUL, its front split at spaces
CmdBody(p) == IF p # <<>> /\ p[Len(p)] = LF THEN SubSeq(p, 1, Len(p) - 1) ELSE p
CmdFront(p) ==
    LET i == IndexOf(CmdBody(p), NUL)
    IN  IF i = 0 THEN CmdBody(p) ELSE SubSeq(CmdBody(p), 1, i - 1)
CmdHasCaps(p) == IndexOf(CmdBody(p), NUL) # 0
CmdCaps(p) ==
    SubSeq(CmdBody(p), IndexOf(CmdBody(p), NUL) + 1, Len(CmdBody(p)))
CmdToks(p) == SplitOn(CmdFront(p), SP)

\* the new identifiers of the commands written
NewIds ==
    {CmdToks(EmitCommands[i].data)[2] : i \in 1..Len(EmitCommands)}

\* C13: the value send_refchange returns is Nothing iff no command was
\* emitted, Sending iff at least one emitted command has a non-null new
\* identifier, and Deleting iff commands were emitted and every one of them
\* has the null identifier as new.
C13_Classification ==
    epc = "returned" =>
        /\ eret \in SendActivity
        /\ \A i \in 1..Len(EmitCommands) :
              /\ EmitCommands[i].kind = "Data"
              /\ Len(CmdToks(EmitCommands[i].data)) = 3
        /\ eret = "Nothing" <=> EmitCommands = <<>>
        /\ eret = "Sending" <=> (\E n \in NewIds : n # NULLSHA)
        /\ eret = "Deleting" <=> (EmitCommands # <<>> /\ NewIds = {NULLSHA})

\* C13 witness: one ref was deleted and one created or updated, and the
\* call returned Sending
C13_Witness ==
    /\ epc = "returned"
    /\ eret = "Sending"
    /\ Len(EmitCommands) = 2
    /\ NULLSHA \in NewIds
    /\ NewIds # {NULLSHA}

\* the names the claim expects a command for
ChangedNames ==
    {r \in (DOMAIN eargs.existing) \cup (DOMAIN eargs.target) :
        /\ Len(r) >= 5
        /\ SubSeq(r, 1, 5) = RefsPrefix
        /\ ~EndsWith(r, PeeledSuffix)
        /\ (IF r \in DOMAIN eargs.existing THEN eargs.existing[r] ELSE NULLSHA)
              # (IF r \in DOMAIN eargs.target THEN eargs.target[r] ELSE NULLSHA)}

\* the capability text the claim expects behind the NUL
RECURSIVE ExpPushCaps(_, _)
ExpPushCaps(caps, k) ==
    IF k > Len(caps) THEN <<>>
    ELSE (IF k > 1 THEN <<SP>> ELSE <<>>)
            \o as_str(caps[k][1])
            \o (IF caps[k][2] = None THEN <<>> ELSE <<EQ>> \o caps[k][2][1])
            \o ExpPushCaps(caps, k + 1)

\* C14: for every pair of ref maps the emitter writes exactly one command
\* 'old new r' for each name r of either map that begins with refs/, does
\* not end with ^{} and has old # new (the map's value, or the null
\* identifier when absent), and no command for any other name; the
\* NUL-delimited capability list stands on the first command only; one
\* Flush is written, after the last command.
C14_Commands ==
    epc = "returned" =>
        /\ EmitPackets # <<>>
        /\ EmitPackets[Len(EmitPackets)] = Flush
        /\ Len(EmitCommands) = Cardinality(ChangedNames)
        /\ {CmdToks(EmitCommands[i].data)[3] : i \in 1..Len(EmitCommands)}
              = ChangedNames
        /\ \A i \in 1..Len(EmitCommands) :
              LET p == EmitCommands[i].data
                  t == CmdToks(p)
              IN  /\ EmitCommands[i].kind = "Data"
                  /\ p[Len(p)] = LF
                  /\ Len(t) = 3
                  /\ t[1] = (IF t[3] \in DOMAIN eargs.existing
                             THEN eargs.existing[t[3]] ELSE NULLSHA)
                  /\ t[2] = (IF t[3] \in DOMAIN eargs.target
                             THEN eargs.target[t[3]] ELSE NULLSHA)
                  /\ CmdHasCaps(p) <=> (i = 1)
                  /\ i = 1 => CmdCaps(p) = ExpPushCaps(eargs.caps, 1)

\* C14 witness: two names changed, a name outside refs/ and a peeled name
\* were passed over, and the capabilities went out with the first command
C14_Witness ==
    /\ epc = "returned"
    /\ Len(EmitCommands) = 2
    /\ eargs.caps = UploadCaps
    /\ CmdHasCaps(EmitCommands[1].data)
    /\ \E r \in (DOMAIN eargs.existing) \cup (DOMAIN eargs.target) :
          r \notin ChangedNames /\ EndsWith(r, PeeledSuffix)

(***************************************************************************)
(* Properties of main.                                                     *)
(***************************************************************************)
\* the bytes main wrote to the destination after send_refchange returned
PackBytes == SubSeq(odst_out, ocmd_end + 1, Len(odst_out))

\* bytes 1..end of every Data packet of a sequence whose first byte is 1
RECURSIVE Channel1(_)
Channel1(pkts) ==
    IF pkts = <<>> THEN <<>>
    ELSE (IF /\ Head(pkts).kind = "Data"
             /\ Head(pkts).data # <<>>
             /\ Head(pkts).data[1] = 1
          THEN Tail(Head(pkts).data) ELSE <<>>)
            \o Channel1(Tail(pkts))

AllButLast(s) == SubSeq(s, 1, Len(s) - 1)

Stopped == {"failed", "panicked"}

\* C15: during the relay the bytes written to the destination are the
\* concatenation, in arrival order, of bytes 1..end of every source Data
\* packet whose first byte is 1 (all but the last packet's when the write of
\* those failed); a packet on channel 2, 3 or any other channel writes
\* nothing and the relay goes on; the relay stops at the first packet that
\* is not Data, and nothing is read from the source after that packet.
C15_RelayDemux ==
    /\ orelay_in # <<>> =>
          /\ IF opc = "failed"
             THEN PackBytes \in {Channel1(orelay_in),
                                 Channel1(AllButLast(orelay_in))}
             ELSE PackBytes = Channel1(orelay_in)
          /\ \A i \in 1..(Len(orelay_in) - 1) : orelay_in[i].kind = "Data"
          /\ LET last == orelay_in[Len(orelay_in)]
             IN  /\ last.kind # "Data" => opc # "relay"
                 /\ (last.kind = "Data" /\ last.data # <<>> /\ last.data[1] # 1)
                       => opc = "relay"
    /\ \A i, j \in 1..Len(olog) :
          (/\ i < j
           /\ olog[i].phase = "relay" /\ olog[i].op = "read"
           /\ olog[i].what \in {"Flush", "Delimiter", "ResponseEnd"})
             => ~(olog[j].peer = "src" /\ olog[j].op = "read")

\* C15 witness: pack, progress, pack, Flush were read and the destination
\* got the five pack bytes
C15_Witness ==
    /\ Len(orelay_in) = 4
    /\ orelay_in[2].data[1] = 2
    /\ orelay_in[4] = Flush
    /\ PackBytes = <<80, 65, 67, 75, 33>>
    /\ opc = "done"

\* C16: pack bytes go to the destination only when a pack is expected and
\* send_refchange returned Sending: when it returned Nothing or Deleting,
\* no pack byte is written to the destination.
C16_PackOnlyWhenSending ==
    osend \in {"Nothing", "Deleting"} => PackBytes = <<>>

\* the places of the history where the empty pack was written
EmptyPackEvs == {i \in 1..Len(olog) : olog[i].what = "empty-pack"}

\* the pack phase is over and main goes on
PackPhaseOver == opc \in {"die_upload", "report", "reparse", "die_receive", "done"}

\* C17: whenever send_refchange returned Sending the destination gets one
\* pack body after the Flush of the commands: the relayed pack when the
\* wanted set is not empty, the empty pack when it is empty, never both and
\* never neither; the empty pack is written in no other situation.
C17_OnePackBody ==
    /\ (osend = "Sending" /\ PackPhaseOver) =>
          IF owants # {}
          THEN /\ orelay_in # <<>>
               /\ PackBytes = Channel1(orelay_in)
               /\ EmptyPackEvs = {}
          ELSE /\ orelay_in = <<>>
               /\ PackBytes = EMPTY_PACK
               /\ Cardinality(EmptyPackEvs) = 1
    /\ EmptyPackEvs # {} => (osend = "Sending" /\ owants = {})

\* C17 witness: a ref was created at a commit the destination has, so the
\* empty pack went out and main ran to its end
C17_Witness ==
    /\ opc = "done"
    /\ osend = "Sending"
    /\ owants = {}
    /\ PackBytes = EMPTY_PACK

\* the identifiers of the commands of one kind written to the source
CmdIds(word) ==
    LET pk == DecodeAll(osrc_out)
    IN  [i \in {k \in 1..Len(pk) :
                  /\ pk[k].kind = "Data"
                  /\ Len(pk[k].data) >= Len(word) + 40
                  /\ SubSeq(pk[k].data, 1, Len(word)) = word}
           |-> SubSeq(pk[i].data, Len(word) + 1, Len(word) + 40)]

\* main has computed wants and haves
Computed == \E i \in 1..Len(olog) : olog[i].phase = "negotiate"

\* C18: the wanted set is { v : (k, v) in the source's ref map, k does not
\* end with ^{}, v is not a value of the destination's ref map }, the held
\* set is the set of values of the destination's ref map; the two are
\* disjoint, and each identifier goes out in at most one want and at most
\* one have.
C18_WantsAndHaves ==
    Computed =>
        /\ owants = {v \in {osrc_refs[k] : k \in DOMAIN osrc_refs} :
                       /\ \E k \in DOMAIN osrc_refs :
                             /\ osrc_refs[k] = v
                             /\ (Len(k) < 3 \/ SubSeq(k, Len(k) - 2, Len(k))
                                                # <<94, 123, 125>>)
                       /\ \A d \in DOMAIN odst_refs : odst_refs[d] # v}
        /\ ohaves = {odst_refs[d] : d \in DOMAIN odst_refs}
        /\ owants \cap ohaves = {}
        /\ LET w == CmdIds(S_want)
               h == CmdIds(S_have)
           IN  /\ \A i, j \in DOMAIN w : w[i] = w[j] => i = j
               /\ \A i, j \in DOMAIN h : h[i] = h[j] => i = j
               /\ {w[i] : i \in DOMAIN w} \subseteq owants
               /\ {h[i] : i \in DOMAIN h} \subseteq ohaves
               /\ (\E i \in 1..Len(olog) : olog[i].what = "done") =>
                     /\ {w[i] : i \in DOMAIN w} = owants
                     /\ {h[i] : i \in DOMAIN h} = ohaves

\* C18 witness: the source has a peeled tag whose identifier the
\* destination lacks; only main's identifier was wanted, and the wants and
\* haves went out
C18_Witness ==
    /\ N_v1peeled \in DOMAIN osrc_refs
    /\ osrc_refs[N_v1peeled] = ShaB
    /\ owants = {ShaA}
    /\ ohaves = {NULLSHA}
    /\ \E i \in 1..Len(olog) : olog[i].what = "done"

\* an entry like e stands in the history before place i
Before(i, e) == \E j \in 1..(i - 1) : olog[j] = e

\* C19: nothing is written to either peer before both advertisements have
\* been read up to their Flush; no pack packet is read from the source
\* before done was written and NAK read; and no pack byte, relayed or of the
\* empty pack, is written to the destination before the Flush that ends the
\* commands.
C19_Sequencing ==
    \A i \in 1..Len(olog) :
        /\ olog[i].op = "write" =>
              /\ Before(i, Ev("src", "read", "advert", "Flush", TRUE))
              /\ Before(i, Ev("dst", "read", "advert", "Flush", TRUE))
        /\ (olog[i].phase = "relay" /\ olog[i].op = "read") =>
              \E k \in 1..(i - 1) :
                  /\ olog[k] = Ev("src", "read", "negotiate", "NAK", TRUE)
                  /\ Before(k, Ev("src", "write", "negotiate", "done", TRUE))
        /\ (olog[i].op = "write" /\ olog[i].what \in {"pack", "empty-pack"}) =>
              /\ olog[i].peer = "dst"
              /\ Before(i, Ev("dst", "write", "emit", "flush", TRUE))

\* C19 witness: a run to the end in which a pack was relayed and a report
\* read
C19_Witness ==
    /\ opc = "done"
    /\ PackBytes # <<>>
    /\ orelay_in # <<>>
    /\ orp_out # <<>>

\* C20: an error raised in any phase is terminal: the operation that failed
\* is the last read or write main performs, no later phase runs, main ends
\* in the failed state and stays there.
C20_ErrorsTerminal ==
    /\ [](\A i \in 1..Len(olog) :
             ~olog[i].ok =>
                 /\ i = Len(olog)
                 /\ opc = IF olog[i].what = "panic" THEN "panicked" ELSE "failed")
    /\ [][(opc \in Stopped) => (ovars' = ovars)]_vars

\* C20 witness: the relay had passed pack bytes on when a read failed, and
\* main stopped there
C20_Witness ==
    /\ opc = "failed"
    /\ PackBytes # <<>>
    /\ olog[Len(olog)] = Ev("src", "read", "relay", "err", FALSE)

\* the places of the history where main read from the destination after
\* its advertisement
ReportReads ==
    {i \in 1..Len(olog) :
        olog[i].peer = "dst" /\ olog[i].op = "read" /\ olog[i].phase # "advert"}

\* main is past the point where it decides whether to read a report
PastReportTest == opc \in {"reparse", "die_receive", "done"}

\* C21: main reads the destination's report if and only if send_refchange
\* returned Deleting or Sending; when it returned Nothing, nothing is read
\* from the destination after its advertisement.  The report is read only
\* after the pack phase has ended, and reading stops at the destination's
\* first Flush or other packet that is not Data: every read before it gave
\* Data, and what follows it is left unread.
C21_ReportIffPush ==
    /\ ReportReads # {} => osend \in {"Deleting", "Sending"}
    /\ PastReportTest => (ReportReads # {} <=> osend \in {"Deleting", "Sending"})
    /\ \A i \in ReportReads :
          /\ olog[i].phase = "report"
          /\ \A j \in 1..Len(olog) :
                olog[j].phase \in {"negotiate", "emit", "relay", "empty_pack"}
                    => j < i
          /\ olog[i].what \in {"Flush", "Delimiter", "ResponseEnd"}
                => /\ \A j \in ReportReads : j <= i
                   /\ opc # "report"
          /\ (\E j \in ReportReads : j > i) => olog[i].what = "Data"

\* C21 witness: a deletion only: no pack went out, the report came in two
\* pieces behind a progress packet and was read up to the Flush
C21_Witness ==
    /\ opc = "done"
    /\ osend = "Deleting"
    /\ Cardinality(ReportReads) = 4
    /\ orp_out = WriteTo(Data(S_unpack_ok)) \o WriteTo(Flush)

\* the stream is closed, holds only frames that write_to wrote for packets
\* of the data model, and is read without chomping
WrittenBackToBack ==
    /\ closed /\ ~chomp
    /\ \A i \in 1..Len(written) :
          written[i].via = "write_to" /\ written[i].n <= 65515

\* C22: read_from consumes exactly the bytes of one packet: when packets
\* (sentinels, Data of at most 65515 bytes) were written back to back by
\* write_to, the k-th read_from without chomping returns the k-th packet
\* and stops at the end of its frame; after the last packet no byte is
\* left, and one more read finds the end of the stream.
C22_ConsumesExactly ==
    WrittenBackToBack =>
        /\ \A i \in 1..Len(results) :
              i <= Len(written)
                  => results[i] = [status |-> "Ok", line |-> PacketOf(written[i])]
        /\ Len(results) <= Len(written) =>
              rpos = IF results = <<>> THEN 0 ELSE written[Len(results)].end
        /\ Len(results) = Len(written) => rpos = Len(wire)
        /\ Len(results) > Len(written) =>
              /\ Len(results) = Len(written) + 1
              /\ results[Len(results)] = [status |-> "Err", err |-> "UnexpectedEof"]
              /\ rpos = Len(wire)

\* C22 witness: as many packets as the writer may write, the first a Data
\* packet with a payload, a sentinel among the others, all read back and
\* the stream used up
C22_Witness ==
    /\ WrittenBackToBack
    /\ Len(written) = MaxFramePkts
    /\ written[1].kind = "Data" /\ written[1].n = MaxSmall
    /\ \E i \in 2..Len(written) : written[i].kind = "Flush"
    /\ Len(results) = Len(written)
    /\ \A i \in 1..Len(results) : results[i].status = "Ok"
    /\ rpos = Len(wire)

\* C24: the relay loop and the report loop handle every well-formed packet
\* without crashing: after a packet was read successfully in either loop,
\* a Data packet with an empty payload (header 0004) included, main goes
\* on or ends normally and never aborts.
C24_LoopsNeverCrash ==
    \A i \in 1..Len(olog) :
        (/\ olog[i].phase \in {"relay", "report"}
         /\ olog[i].op = "read"
         /\ olog[i].ok
         /\ i = Len(olog))
            => opc # "panicked"

\* C25: in every run of main, runs with an empty repository on either
\* side included, no want packet and no have packet written to the source
\* names the null identifier (forty zeros).
C25_NoNullId ==
    LET w == CmdIds(S_want)
        h == CmdIds(S_have)
    IN  /\ \A i \in DOMAIN w : w[i] # NULLSHA
        /\ \A i \in DOMAIN h : h[i] # NULLSHA

(***************************************************************************)
(* Properties of the capability registry.                                  *)
(***************************************************************************)
\* C23: the registry is a bijection between the 26 symbols and their
\* tokens: try_from(c.as_str()) = Ok(c) for every Capability c, as_str is
\* injective, and try_from(s) = Err(s) for every string s that is not one
\* of the 26 tokens.
C23_Bijection ==
    /\ Cardinality(Capability) = 26
    /\ cpc = "back" => cresult = Some(TryOk(cin.cap))
    /\ cpc \in {"token", "back"} =>
          \A c \in Capability : as_str(c) = ctoken[1] => c = cin.cap
    /\ \A c1, c2 \in Capability : as_str(c1) = as_str(c2) => c1 = c2
    /\ (cpc = "parsed" /\ cin.value \notin Tokens)
          => cresult = Some(TryErr(cin.value))
    /\ (cpc = "parsed" /\ cin.value \in Tokens)
          => /\ cresult[1].ok
             /\ as_str(cresult[1].cap) = cin.value

\* C23 witness: report-status, a token that is the beginning of another
\* token, came back as its own symbol
C23_Witness ==
    /\ cpc = "back"
    /\ cin.cap = "ReportStatus"
    /\ ctoken = Some(SubSeq(as_str("ReportStatusV2"), 1, 13))
    /\ cresult = Some(TryOk("ReportStatus"))

=============================================================================
